---- MODULE Spec2Model ----
(***************************************************************************)
(* Smart order router: graph construction, reverse-Dijkstra heuristic,     *)
(* A* top-K search (phase1-astar-mike.js), route evaluation, response      *)
(* curves and the priority-queue water-fill splitter (phase2-waterfill.js).*)
(*                                                                         *)
(* Numbers.  The program computes in IEEE doubles.  Here                   *)
(*   - raw token amounts are integers (one raw unit is the grid);          *)
(*   - the swap arithmetic of simulateSwap rounds every intermediate       *)
(*     result to MantBits significant bits, as a double rounds to 53;      *)
(*   - spot prices are fixed point with SpotScale units per 1.0;           *)
(*   - logarithms are floor(log2), so scores and the gas penalty are       *)
(*     integers in units of ln 2;                                          *)
(*   - marginal rates are fixed point with MScale units per 1.0.           *)
(***************************************************************************)
EXTENDS Integers, Sequences, FiniteSets, TLC

(***************************************************************************)
(* Bounds of the model                                                     *)
(***************************************************************************)
MaxHopsBound == 4       \* maxHops ranges over 1 .. MaxHopsBound
TopKBound == 3          \* topK ranges over 1 .. TopKBound
GasPenaltyBound == 1    \* gasPerHopPenalty ranges over 0 .. GasPenaltyBound
MantBits == 10          \* significand bits kept by the rounded swap arithmetic
MaxIterBound == 12      \* largest maxIterations option of a splitting request

(***************************************************************************)
(* Program constants                                                       *)
(***************************************************************************)
MAX_NODES == 50000
MAX_ITERATIONS == 50000
ASTAR_MAX_ITERATIONS == 50000
TimeCheckEvery == 100
EdgeLimitMin == 8
FrontierCapBeam == 32
FrontierCapK == 128
MaxPathSteps == 100
PriceDeltaBpsMax == 50
BpsScale == 10000
ProbeRelDen == 1000          \* rel = 0.001
ProbeDxCap == 1000000000     \* dxCap = 1e9
ProbeImpactPct == 5          \* priceImpact > 0.05
DxCapKeepPct == 5            \* maxOut = reserveOut * 0.95 leaves 5%

(***************************************************************************)
(* Number representation                                                   *)
(***************************************************************************)
FeeDen == 1000          \* fees are in 1/FeeDen (3 = 0.3%)
SpotScale == 10000      \* fixed point of spot prices
NegInf == -1000000      \* -Infinity: below every reachable score
Inf == 1000000000       \* +Infinity: above every reachable amount
Undefined == -1         \* undefined / null for non-negative fields
NoRoute == 0            \* null in place of a route (routes are indexed from 1)

Max(a, b) == IF a >= b THEN a ELSE b
Min(a, b) == IF a <= b THEN a ELSE b
Abs(a) == IF a >= 0 THEN a ELSE -a

RECURSIVE Pow2(_)
Pow2(n) == IF n <= 0 THEN 1 ELSE 2 * Pow2(n - 1)

RECURSIVE BitLen(_)
BitLen(x) == IF x <= 0 THEN 0 ELSE 1 + BitLen(x \div 2)

\* x rounded to MantBits significant bits, to nearest, ties to even
Fl(x) ==
  IF x < Pow2(MantBits) THEN x
  ELSE LET q  == Pow2(BitLen(x) - MantBits)
           m  == x \div q
           r  == x - m * q
       IN  IF 2 * r < q THEN m * q
           ELSE IF 2 * r > q THEN (m + 1) * q
           ELSE IF m % 2 = 0 THEN m * q ELSE (m + 1) * q

\* a / b rounded to the nearest integer (b > 0, a >= 0)
RoundDiv(a, b) == (a \div b) + (IF 2 * (a % b) >= b THEN 1 ELSE 0)

\* floor(log2(num / den)), num > 0, den > 0
RECURSIVE ILog(_, _)
ILog(num, den) ==
  IF num >= 2 * den THEN 1 + ILog(num, 2 * den)
  ELSE IF num < den THEN ILog(2 * num, den) - 1
  ELSE 0

RECURSIVE SeqSum(_)
SeqSum(s) == IF s = <<>> THEN 0 ELSE Head(s) + SeqSum(Tail(s))

Range(s) == {s[i] : i \in 1 .. Len(s)}

(***************************************************************************)
(* Pools                                                                   *)
(***************************************************************************)
Tok(a, r, d) == [addr |-> a, reserve |-> r, decimals |-> d]
Pool(p, fee, ta, tb) == [addr |-> p, fee |-> fee, tokens |-> <<ta, tb>>]

NoToken == [addr |-> "", reserve |-> 0, decimals |-> 0]

\* pool.tokens.find(t => t.addr === tokenAddr)
FindToken(pool, tokenAddr) ==
  LET idx == {i \in 1 .. Len(pool.tokens) : pool.tokens[i].addr = tokenAddr}
  IN  IF idx = {} THEN NoToken
      ELSE pool.tokens[CHOOSE i \in idx : \A j \in idx : i <= j]

\* pool.tokens.find(t => t.addr !== tokenAddr)
getOtherToken(pool, tokenAddr) ==
  LET idx == {i \in 1 .. Len(pool.tokens) : pool.tokens[i].addr # tokenAddr}
  IN  IF idx = {} THEN NoToken
      ELSE pool.tokens[CHOOSE i \in idx : \A j \in idx : i <= j]

\* (reserveOut / reserveIn) * (1 - fee), in SpotScale fixed point
getSpotPrice(pool, tokenInAddr, tokenOutAddr) ==
  LET tokenIn  == FindToken(pool, tokenInAddr)
      tokenOut == FindToken(pool, tokenOutAddr)
  IN  IF tokenIn = NoToken \/ tokenOut = NoToken THEN 0
      ELSE IF tokenIn.reserve = 0 \/ tokenOut.reserve = 0 THEN 0
      ELSE (tokenOut.reserve * (FeeDen - pool.fee) * (SpotScale \div FeeDen))
             \div tokenIn.reserve

(***************************************************************************)
(* Graph construction                                                      *)
(***************************************************************************)
\* the token dictionary, in its iteration order
tokenMap == <<"APT", "USDC", "USDT", "WETH", "T05", "T06", "T07", "T08", "T09", "T10">>
TokenAddrs == Range(tokenMap)
TokenIds == 0 .. (Len(tokenMap) - 1)

\* tokenToId.get(addr); Undefined for an address the dictionary lacks
tokenToId(addr) ==
  IF addr \in TokenAddrs
  THEN (CHOOSE i \in 1 .. Len(tokenMap) : tokenMap[i] = addr) - 1
  ELSE Undefined

idToAddr(id) == tokenMap[id + 1]

\* poolToId.get(pool.addr): pools are numbered in list order; a repeated
\* address keeps the number of its last occurrence so far
poolToId(pools, upto, addr) ==
  LET idx == {i \in 1 .. upto : pools[i].addr = addr}
  IN  (CHOOSE i \in idx : \A j \in idx : i >= j) - 1

PoolById(pools, poolId) == pools[poolId + 1]

\* priceImpact > 0.05 for probeSize = min(reserveIn * 0.001, 1e9)
probeImpactTooHigh(reserveIn) ==
  IF reserveIn \div ProbeRelDen < ProbeDxCap
  THEN \* probe = reserveIn / 1000: impact = 1 / (1000 + 1)
       100 > ProbeImpactPct * (ProbeRelDen + 1)
  ELSE \* probe = 1e9: impact = 1e9 / (reserveIn + 1e9)
       reserveIn \div ((100 - ProbeImpactPct) \div ProbeImpactPct) < ProbeDxCap

\* the edge buildAdjacencyMap emits for one direction of a pool, or <<>>
poolEdges(pools, i, token) ==
  LET pool       == pools[i]
      otherToken == getOtherToken(pool, token.addr)
      reserveIn  == token.reserve
      reserveOut == otherToken.reserve
      spotPrice  == getSpotPrice(pool, token.addr, otherToken.addr)
      logSpot    == ILog(spotPrice, SpotScale)
      \* 2 * ln(sqrt(reserveIn * reserveOut))
      logLiq2    == ILog(reserveIn, 1) + ILog(reserveOut, 1)
  IN  IF otherToken = NoToken THEN <<>>
      ELSE IF reserveIn = 0 \/ reserveOut = 0 THEN <<>>
      ELSE IF reserveIn < 1 \/ reserveOut < 1 THEN <<>>
      ELSE IF spotPrice = 0 THEN <<>>
      ELSE IF probeImpactTooHigh(reserveIn) THEN <<>>
      ELSE << [ from         |-> token.addr,
                to           |-> otherToken.addr,
                pool         |-> pool.addr,
                poolId       |-> poolToId(pools, i, pool.addr),
                spotPrice    |-> spotPrice,
                logSpotPrice |-> logSpot,
                score        |-> 2 * logSpot + logLiq2,   \* in units of ln(2)/2
                dxCapRaw     |-> ((100 - DxCapKeepPct) * reserveIn * FeeDen)
                                   \div (DxCapKeepPct * (FeeDen - pool.fee)),
                reserveIn    |-> reserveIn ] >>

\* Array.prototype.sort((a, b) => b.score - a.score): stable, descending
RECURSIVE InsertByScore(_, _)
InsertByScore(sorted, e) ==
  IF sorted = <<>> THEN <<e>>
  ELSE IF Head(sorted).score >= e.score
       THEN <<Head(sorted)>> \o InsertByScore(Tail(sorted), e)
       ELSE <<e>> \o sorted

RECURSIVE SortByScore(_)
SortByScore(edges) ==
  IF edges = <<>> THEN <<>>
  ELSE InsertByScore(SortByScore(SubSeq(edges, 1, Len(edges) - 1)), edges[Len(edges)])

\* all edges in emission order: pools in list order, tokens in slot order
RECURSIVE emittedEdges(_, _)
emittedEdges(pools, i) ==
  IF i > Len(pools) THEN <<>>
  ELSE LET RECURSIVE slots(_)
           slots(k) == IF k > Len(pools[i].tokens) THEN <<>>
                       ELSE poolEdges(pools, i, pools[i].tokens[k]) \o slots(k + 1)
       IN  slots(1) \o emittedEdges(pools, i + 1)

buildAdjacencyMap(pools) ==
  LET all == emittedEdges(pools, 1)
  IN  [a \in TokenAddrs |->
         SortByScore(SelectSeq(all, LAMBDA e : e.from = a))]

\* the distinct targets of an edge list, in order of first occurrence
RECURSIVE firstSeen(_, _)
firstSeen(edges, seen) ==
  IF edges = <<>> THEN <<>>
  ELSE IF Head(edges).to \in seen THEN firstSeen(Tail(edges), seen)
       ELSE <<Head(edges).to>> \o firstSeen(Tail(edges), seen \cup {Head(edges).to})

\* the two best edges to one target, whatever their prices
keptTopTwo(edgeList) ==
  LET sorted == SortByScore(edgeList)
  IN  IF Len(sorted) > 1 THEN <<sorted[1], sorted[2]>> ELSE <<sorted[1]>>

\* what compressParallelEdges keeps of the edges to one target
keptOfGroup(edgeList) ==
  LET sorted == SortByScore(edgeList)
  IN  IF Len(sorted) > 1
         /\ Abs(sorted[2].spotPrice - sorted[1].spotPrice) * BpsScale
              <= PriceDeltaBpsMax * sorted[1].spotPrice
      THEN <<sorted[1], sorted[2]>>
      ELSE <<sorted[1]>>

compressEdgeList(edges) ==
  LET keys == firstSeen(edges, {})
      RECURSIVE groups(_)
      groups(k) == IF k > Len(keys) THEN <<>>
                   ELSE keptOfGroup(SelectSeq(edges, LAMBDA e : e.to = keys[k]))
                          \o groups(k + 1)
  IN  SortByScore(groups(1))

compressParallelEdges(adjMap) == [a \in DOMAIN adjMap |-> compressEdgeList(adjMap[a])]

\* buildNumericAdjacency: the same edges, keyed and targeted by token id
buildNumericAdjacency(adjMap) ==
  [id \in TokenIds |->
     LET edges == adjMap[idToAddr(id)]
     IN  [k \in 1 .. Len(edges) |->
            [ toId         |-> tokenToId(edges[k].to),
              toAddr       |-> edges[k].to,
              poolId       |-> edges[k].poolId,
              pool         |-> edges[k].pool,
              spotPrice    |-> edges[k].spotPrice,
              logSpotPrice |-> edges[k].logSpotPrice,
              score        |-> edges[k].score,
              dxCapRaw     |-> edges[k].dxCapRaw,
              reserveIn    |-> edges[k].reserveIn ]]]

(***************************************************************************)
(* MinHeap / MaxHeap: an array heap of records with a numeric key.         *)
(* sign = 1 is MinHeap's compareFn (a.key - b.key), sign = -1 is MaxHeap's *)
(* negated one.  Indices are the program's, from 0.                        *)
(***************************************************************************)
compareFn(sign, a, b) == sign * (a.key - b.key)

SwapAt(heap, i, j) ==
  [heap EXCEPT ![i + 1] = heap[j + 1], ![j + 1] = heap[i + 1]]

RECURSIVE bubbleUp(_, _, _)
bubbleUp(sign, heap, idx) ==
  IF idx <= 0 THEN heap
  ELSE LET parentIdx == (idx - 1) \div 2
       IN  IF compareFn(sign, heap[idx + 1], heap[parentIdx + 1]) >= 0 THEN heap
           ELSE bubbleUp(sign, SwapAt(heap, idx, parentIdx), parentIdx)

RECURSIVE bubbleDown(_, _, _)
bubbleDown(sign, heap, idx) ==
  LET leftIdx  == 2 * idx + 1
      rightIdx == 2 * idx + 2
      m1 == IF leftIdx < Len(heap)
               /\ compareFn(sign, heap[leftIdx + 1], heap[idx + 1]) < 0
            THEN leftIdx ELSE idx
      minIdx == IF rightIdx < Len(heap)
                   /\ compareFn(sign, heap[rightIdx + 1], heap[m1 + 1]) < 0
                THEN rightIdx ELSE m1
  IN  IF minIdx = idx THEN heap
      ELSE bubbleDown(sign, SwapAt(heap, idx, minIdx), minIdx)

heapPush(sign, heap, item) == bubbleUp(sign, Append(heap, item), Len(heap))

heapPeek(heap) == heap[1]

\* the heap left by pop(); pop() returns heapPeek of the heap before
heapPop(sign, heap) ==
  IF Len(heap) <= 1 THEN <<>>
  ELSE bubbleDown(sign, [i \in 1 .. (Len(heap) - 1) |->
                           IF i = 1 THEN heap[Len(heap)] ELSE heap[i]], 0)

\* toSortedArray: [...heap].sort((a, b) => -compareFn(a, b)), a stable sort
heapArrayOrder(sign, heap) == heap

\* only the root of the heap: what peek() would give in place of the array
heapRootOnly(sign, heap) == IF heap = <<>> THEN <<>> ELSE <<heap[1]>>

RECURSIVE InsertByKeyDesc(_, _, _)
InsertByKeyDesc(sign, sorted, e) ==
  IF sorted = <<>> THEN <<e>>
  ELSE IF -compareFn(sign, Head(sorted), e) <= 0
       THEN <<Head(sorted)>> \o InsertByKeyDesc(sign, Tail(sorted), e)
       ELSE <<e>> \o sorted

RECURSIVE toSortedArray(_, _)
toSortedArray(sign, heap) ==
  IF heap = <<>> THEN <<>>
  ELSE InsertByKeyDesc(sign, toSortedArray(sign, SubSeq(heap, 1, Len(heap) - 1)),
                       heap[Len(heap)])

(***************************************************************************)
(* Reverse Dijkstra heuristic                                              *)
(***************************************************************************)
\* reverseAdj.get(node): the reversed edges into `node`, in insertion order
\* (adjacency iterated token by token, each list in order)
reverseEdges(adjMap, node, gasPerHopPenalty) ==
  LET RECURSIVE collect(_)
      collect(t) ==
        IF t > Len(tokenMap) THEN <<>>
        ELSE LET into == SelectSeq(adjMap[tokenMap[t]], LAMBDA e : e.to = node)
             IN  [k \in 1 .. Len(into) |->
                    [to     |-> tokenMap[t],
                     weight |-> Max(0, -into[k].logSpotPrice + gasPerHopPenalty)]]
                 \o collect(t + 1)
  IN  collect(1)

\* dist.get(a) ?? Infinity
distOf(dist, a) == IF a \in DOMAIN dist THEN dist[a] ELSE Inf

\* a relaxation that records only the first distance found for a token
RECURSIVE relaxUnseen(_, _, _, _)
relaxUnseen(edges, d, dist, pq) ==
  IF edges = <<>> THEN [dist |-> dist, pq |-> pq]
  ELSE LET edge    == Head(edges)
           newDist == d + edge.weight
       IN  IF edge.to \notin DOMAIN dist
           THEN relaxUnseen(Tail(edges), d,
                            [a \in DOMAIN dist \cup {edge.to} |->
                               IF a = edge.to THEN newDist ELSE dist[a]],
                            heapPush(1, pq, [key |-> newDist, node |-> edge.to]))
           ELSE relaxUnseen(Tail(edges), d, dist, pq)

\* the relaxation loop over the reversed edges of one popped node
RECURSIVE relaxEdges(_, _, _, _)
relaxEdges(edges, d, dist, pq) ==
  IF edges = <<>> THEN [dist |-> dist, pq |-> pq]
  ELSE LET edge    == Head(edges)
           newDist == d + edge.weight
       IN  IF newDist < distOf(dist, edge.to)
           THEN relaxEdges(Tail(edges), d,
                           [a \in DOMAIN dist \cup {edge.to} |->
                              IF a = edge.to THEN newDist ELSE dist[a]],
                           heapPush(1, pq, [key |-> newDist, node |-> edge.to]))
           ELSE relaxEdges(Tail(edges), d, dist, pq)

RECURSIVE dijkstraLoop(_, _, _, _, _, _)
dijkstraLoop(adjMap, gasPerHopPenalty, dist, pq, nodesExplored, iterations) ==
  IF ~(Len(pq) > 0 /\ nodesExplored < MAX_NODES /\ iterations < MAX_ITERATIONS)
  THEN dist
  ELSE LET top  == heapPeek(pq)
           rest == heapPop(1, pq)
       IN  IF top.key > dist[top.node]
           THEN dijkstraLoop(adjMap, gasPerHopPenalty, dist, rest,
                             nodesExplored, iterations)
           ELSE LET r == relaxEdges(reverseEdges(adjMap, top.node, gasPerHopPenalty),
                                    top.key, dist, rest)
                IN  dijkstraLoop(adjMap, gasPerHopPenalty, r.dist, r.pq,
                                 nodesExplored + 1, iterations + 1)

\* the dist map computeReverseHeuristic builds on a cache miss
computeReverseHeuristic(adjMap, targetAddr, gasPerHopPenalty) ==
  dijkstraLoop(adjMap, gasPerHopPenalty,
               [a \in {targetAddr} |-> 0],
               <<[key |-> 0, node |-> targetAddr]>>, 0, 0)

\* heuristicArr: 0 for every token without a distance
heuristicArrOf(dist) ==
  [id \in TokenIds |-> IF idToAddr(id) \in DOMAIN dist THEN dist[idToAddr(id)] ELSE 0]

\* `${targetAddr}:${gasPerHopPenalty.toFixed(6)}:${n}:${e}`
heuristicCacheKey(adjMap, targetAddr, gasPerHopPenalty) ==
  <<targetAddr, gasPerHopPenalty,
    Cardinality({a \in DOMAIN adjMap : adjMap[a] # <<>>}),
    SeqSum([i \in 1 .. Len(tokenMap) |-> Len(adjMap[tokenMap[i]])])>>

\* computeReverseHeuristic with its cache (lines 246-252 and 318-335): what
\* the call returns and the cache it leaves.  withTokenToId says whether the
\* caller passed tokenToId; the value kept and returned is the dist Map
\* without it and the record {dist, heuristicArr} with it
cachedReverseHeuristic(cache, adjMap, targetAddr, gasPerHopPenalty, withTokenToId) ==
  LET cacheKey == heuristicCacheKey(adjMap, targetAddr, gasPerHopPenalty)
      dist     == computeReverseHeuristic(adjMap, targetAddr, gasPerHopPenalty)
      cached   == IF withTokenToId
                  THEN [shape |-> "record", dist |-> dist,
                        heuristicArr |-> heuristicArrOf(dist)]
                  ELSE [shape |-> "Map", dist |-> dist, heuristicArr |-> <<>>]
  IN  IF cacheKey \in DOMAIN cache
      THEN [value |-> cache[cacheKey], cache |-> cache]
      ELSE [value |-> cached,
            cache |-> [k \in DOMAIN cache \cup {cacheKey} |->
                         IF k = cacheKey THEN cached ELSE cache[k]]]

(***************************************************************************)
(* A* top-K search: findTopKRoutesAStar                                    *)
(***************************************************************************)
VARIABLES
  pc,            \* position of the request
  cfg,           \* the request and the pool list it runs on
  adjId,         \* numeric adjacency after compression
  heuristicArr,  \* heuristic per token id
  search,        \* per-request search state of findTopKRoutesAStar
  routes,        \* the list findTopKRoutesAStar returned
  heuristicCache,   \* the module-level Map of computeReverseHeuristic
  heuristicResult   \* what the last call of computeReverseHeuristic returned

cacheVars == <<heuristicCache, heuristicResult>>

NoHeuristic == [shape |-> "none", dist |-> <<>>, heuristicArr |-> <<>>]

\* `${fromId}:${poolId}:${toId}` joined by '|'
routeKeyOf(route) ==
  [i \in 1 .. Len(route) |-> <<route[i].fromId, route[i].poolId, route[i].toId>>]

\* bitsetHas(partial.visitedBits, nextNodeId)
bitsetNever(bits, id) == FALSE
bitsetHas(bits, id) == id \in bits

\* seenRoutes.has(routeKey) in the main loop
seenRoutesNever(seen, routeKey) == FALSE
seenRoutesHas(seen, routeKey) == routeKey \in seen

\* `else if (newScore > kthScore)`
beatsKthAlways(newScore, kthScore) == TRUE
beatsKth(newScore, kthScore) == newScore > kthScore

\* candidatesHeap.push / pop with kthScore upkeep for a completed, new route
\* (the instrumented sets rejected / evicted record the K-th-best discards)
offerCandidate(s, topK, route, newScore) ==
  LET item == [key |-> newScore, route |-> route, seq |-> s.found]
  IN  IF Len(s.cands) < topK
      THEN LET pushed == heapPush(1, s.cands, item)
           IN  [s EXCEPT !.cands = pushed,
                         !.found = @ + 1,
                         !.kthScore = IF Len(pushed) = topK
                                      THEN heapPeek(pushed).key ELSE @]
      ELSE IF beatsKth(newScore, s.kthScore)
      THEN LET popped == heapPop(1, s.cands)
               pushed == heapPush(1, popped, item)
           IN  [s EXCEPT !.cands = pushed,
                         !.found = @ + 1,
                         !.evicted = @ \cup {heapPeek(s.cands).key},
                         !.kthScore = heapPeek(pushed).key]
      ELSE [s EXCEPT !.found = @ + 1, !.rejected = @ \cup {newScore}]

\* the seed with the candidate left out: the key of the first edge
\* source -> target is recorded in seenRoutes, the path is not pushed
seedUnrecorded(s, c, sourceId, targetId, edges) ==
  LET hits == {k \in 1 .. Len(edges) : edges[k].toId = targetId}
  IN  IF hits = {} THEN s
      ELSE LET edge == edges[CHOOSE k \in hits : \A j \in hits : k <= j]
           IN  [s EXCEPT !.seen = @ \cup
                  {<< <<sourceId, edge.poolId, targetId>> >>}]

\* the seed of lines 605-629: the first edge source -> target, if any
seedDirect(s, c, sourceId, targetId, edges) ==
  LET hits == {k \in 1 .. Len(edges) : edges[k].toId = targetId}
  IN  IF hits = {} THEN s
      ELSE LET edge == edges[CHOOSE k \in hits : \A j \in hits : k <= j]
               directScore == edge.logSpotPrice - c.gasPerHopPenalty
               directRoute == << [pool      |-> edge.pool,
                                  poolId    |-> edge.poolId,
                                  fromId    |-> sourceId,
                                  toId      |-> targetId,
                                  fromAddr  |-> c.source,
                                  toAddr    |-> c.target,
                                  dxCapRaw  |-> Undefined,
                                  reserveIn |-> Undefined,
                                  gFrom     |-> 0,
                                  g         |-> directScore] >>
               routeKey == routeKeyOf(directRoute)
           IN  IF routeKey \in s.seen THEN s
               ELSE LET pushed == heapPush(1, s.cands,
                                    [key |-> directScore, route |-> directRoute,
                                     seq |-> s.found])
                    IN  [s EXCEPT !.seen = @ \cup {routeKey},
                                  !.cands = pushed,
                                  !.found = @ + 1,
                                  !.kthScore = IF Len(pushed) = c.topK
                                               THEN heapPeek(pushed).key ELSE @]

\* one pass of the body of `for (let ei = 0; ei < edgeLimit; ei++)`
expandEdge(s, c, targetId, partial, edge) ==
  LET nextNodeId == edge.toId
      newScore   == partial.score + edge.logSpotPrice - c.gasPerHopPenalty
      newHops    == partial.hops + 1
      rem        == c.maxHops - newHops
      hRem       == heuristicArr[nextNodeId]
      prio       == newScore - hRem - (c.gasPerHopPenalty * rem)
      newEdge    == [pool      |-> edge.pool,
                     poolId    |-> edge.poolId,
                     fromId    |-> partial.nodeId,
                     toId      |-> nextNodeId,
                     fromAddr  |-> idToAddr(partial.nodeId),
                     toAddr    |-> edge.toAddr,
                     dxCapRaw  |-> edge.dxCapRaw,
                     reserveIn |-> edge.reserveIn,
                     gFrom     |-> partial.score,
                     g         |-> newScore]
      route      == Append(partial.path, newEdge)
      routeKey   == routeKeyOf(route)
  IN  IF bitsetHas(partial.visitedBits, nextNodeId) THEN s
      ELSE IF partial.prevNodeId # Undefined /\ nextNodeId = partial.prevNodeId THEN s
      ELSE IF nextNodeId # targetId /\ Len(s.cands) >= c.topK /\ prio <= s.kthScore THEN s
      ELSE IF nextNodeId = targetId
      THEN IF Len(route) > MaxPathSteps THEN [s EXCEPT !.threw = TRUE]
           ELSE IF seenRoutesHas(s.seen, routeKey) THEN s
           ELSE offerCandidate([s EXCEPT !.seen = @ \cup {routeKey}],
                               c.topK, route, newScore)
      ELSE IF newHops < c.maxHops
      THEN IF newScore <= s.bestAtDepth[nextNodeId][newHops] THEN s
           ELSE [s EXCEPT
                   !.bestAtDepth[nextNodeId][newHops] = newScore,
                   !.frontier = heapPush(-1, @,
                      [key |-> prio,
                       st  |-> [nodeId      |-> nextNodeId,
                                path        |-> route,
                                visitedBits |-> partial.visitedBits \cup {nextNodeId},
                                score       |-> newScore,
                                prio        |-> prio,
                                hops        |-> newHops,
                                prevNodeId  |-> partial.nodeId]])]
      ELSE s

RECURSIVE expandEdges(_, _, _, _, _, _, _)
expandEdges(s, c, targetId, partial, edges, ei, edgeLimit) ==
  IF ei >= edgeLimit \/ s.threw THEN s
  ELSE expandEdges(expandEdge(s, c, targetId, partial, edges[ei + 1]),
                   c, targetId, partial, edges, ei + 1, edgeLimit)

\* one pass of the body of the beam loop: pop one state and expand it
expandOne(s, c, targetId) ==
  LET partial == heapPeek(s.frontier).st
      popped  == [s EXCEPT !.frontier = heapPop(-1, @),
                           !.nodesExplored = @ + 1]
      h          == heuristicArr[partial.nodeId]
      upperBound == partial.score - h
                      - (c.gasPerHopPenalty * (c.maxHops - partial.hops))
      edges      == adjId[partial.nodeId]
      edgeLimit  == Min(Len(edges), Max(EdgeLimitMin, c.beamWidth \div 2))
  IN  IF partial.hops >= c.maxHops THEN popped
      ELSE IF Len(popped.cands) >= c.topK /\ upperBound <= popped.kthScore
      THEN [popped EXCEPT !.nodesPruned = @ + 1]
      ELSE expandEdges(popped, c, targetId, partial, edges, 0, edgeLimit)

RECURSIVE expandBeam(_, _, _, _, _)
expandBeam(s, c, targetId, i, expansionLimit) ==
  IF ~(i < expansionLimit /\ Len(s.frontier) > 0) \/ s.threw THEN s
  ELSE expandBeam(expandOne(s, c, targetId), c, targetId, i + 1, expansionLimit)

\* while (frontierHeap.size() > FRONTIER_CAP) frontierHeap.pop()
RECURSIVE capFrontier(_, _)
capFrontier(frontier, cap) ==
  IF Len(frontier) > cap THEN capFrontier(heapPop(-1, frontier), cap)
  ELSE frontier

FRONTIER_CAP(c) == Max(c.beamWidth * FrontierCapBeam, c.topK * FrontierCapK)

\* route.capRaw of lines 802-817
capRawOf(route) ==
  LET caps == {route[h].dxCapRaw : h \in {k \in 1 .. Len(route) :
                                            route[k].dxCapRaw # Undefined}}
  IN  IF caps = {} THEN Inf
      ELSE CHOOSE m \in caps : \A x \in caps : m <= x

(***************************************************************************)
(* Swap simulation and route evaluation (phase1-astar-mike.js)             *)
(***************************************************************************)
\* a * b rounded to MantBits significant bits (a, b >= 0); the product is
\* formed on the rounded mantissa of the larger operand
FlMul(a, b) ==
  LET big   == Max(a, b)
      small == Min(a, b)
      q     == IF big < Pow2(MantBits) THEN 1 ELSE Pow2(BitLen(big) - MantBits)
      m     == Fl(big) \div q
  IN  Fl(m * small) * q

\* a / b rounded to the nearest raw unit and to MantBits significant bits
FlDiv(a, b) == Fl(RoundDiv(a, b))

\* simulateSwap: constant-product output for amountIn of tokenInAddr
simulateSwap(pool, tokenInAddr, tokenOutAddr, amountIn) ==
  LET tokenIn    == FindToken(pool, tokenInAddr)
      tokenOut   == FindToken(pool, tokenOutAddr)
      reserveIn  == tokenIn.reserve
      reserveOut == tokenOut.reserve
      amountInAfterFee == FlDiv(FlMul(amountIn, FeeDen - pool.fee), FeeDen)
  IN  IF tokenIn = NoToken \/ tokenOut = NoToken THEN 0
      ELSE IF reserveIn = 0 \/ reserveOut = 0 THEN 0
      ELSE FlDiv(FlMul(reserveOut, amountInAfterFee),
                 Fl(reserveIn + amountInAfterFee))

\* simulateRoute: the hops in order, stopping at a zero amount
RECURSIVE simulateRoute(_, _)
simulateRoute(route, amount) ==
  IF route = <<>> THEN amount
  ELSE LET hop == Head(route)
           currentAmount == simulateSwap(hop.pool, hop.fromAddr, hop.toAddr, amount)
       IN  IF currentAmount = 0 THEN 0
           ELSE simulateRoute(Tail(route), currentAmount)

routeFixedGas(hops, gasPerHopInOutputTokens) == hops * gasPerHopInOutputTokens

\* the loop of selectBestRoute over routes[i..]: keeps the first strict maximum
RECURSIVE selectBestFrom(_, _, _, _, _)
selectBestFrom(routeList, i, amount, gasPerHopInOutputTokens, best) ==
  IF i > Len(routeList) THEN best
  ELSE LET output    == simulateRoute(routeList[i], amount)
           gasCost   == routeFixedGas(Len(routeList[i]), gasPerHopInOutputTokens)
           netOutput == output - gasCost
       IN  selectBestFrom(routeList, i + 1, amount, gasPerHopInOutputTokens,
             IF netOutput > best.output
             THEN [route |-> i, output |-> netOutput]
             ELSE best)

\* selectBestRoute: route is the index of the chosen path, NoRoute for null
selectBestRoute(routeList, amount, gasPerHopInOutputTokens) ==
  selectBestFrom(routeList, 1, amount, gasPerHopInOutputTokens,
                 [route |-> NoRoute, output |-> 0])

(***************************************************************************)
(* Fixed point of marginal rates                                           *)
(***************************************************************************)
MScale == 100           \* marginal rates are in 1/MScale output per input unit
BisectSteps == 60       \* iterations of both bisections

\* (dx / D) * dm in fixed point, D > 0, dx >= 0
rateMul(dx, D, dm) ==
  IF dm >= 0 THEN RoundDiv(dx * dm, D) ELSE -RoundDiv(dx * (-dm), D)

\* Math.max(tol, totalInputRaw * 1e-12, 1e-9) on the raw grid, where the
\* 1e-9 floor is below one unit
effectiveTolOf(tol, totalInputRaw) ==
  Max(tol, (totalInputRaw \div 1000000) \div 1000000)

(***************************************************************************)
(* Response curves (phase2-waterfill.js)                                   *)
(***************************************************************************)
\* the 18 sample fractions of generateSamplePoints, in units of 1/PctDen
PctDen == 4000
percentages ==
  <<4, 10, 20, 30, 40, 60, 80, 120, 200, 300, 400, 600, 800, 1200, 1600,
    2000, 3000, 4000>>

generateSamplePoints(totalInputRaw) ==
  [k \in 1 .. Len(percentages) |-> (totalInputRaw * percentages[k]) \div PctDen]

RECURSIVE Pow10(_)
Pow10(n) == IF n <= 0 THEN 1 ELSE 10 * Pow10(n - 1)

\* marginal rate deltaOut / deltaIn in fixed point
rate(deltaOut, deltaIn) ==
  IF deltaOut >= 0 THEN RoundDiv(deltaOut * MScale, deltaIn)
  ELSE -RoundDiv((-deltaOut) * MScale, deltaIn)

\* buildResponseCurve's loop without the capacity point: every sample is
\* recorded with the net output the simulation gave
RECURSIVE sampleEvery(_, _, _, _, _, _)
sampleEvery(route, sampleInputs, gasPerHopInOutputTokensRaw, k, curve, capacityReached) ==
  IF k > Len(sampleInputs) THEN curve
  ELSE CHOOSE built \in
         { sampleEvery(route, sampleInputs, gasPerHopInOutputTokensRaw, k + 1,
                       Append(curve, [inputRaw    |-> sampleInputs[k],
                                      outputRaw   |-> netRaw,
                                      marginalRaw |-> 0,
                                      simulated   |-> netRaw]),
                       FALSE)
           : netRaw \in {Max(0, simulateRoute(route, sampleInputs[k])
                                  - Len(route) * gasPerHopInOutputTokensRaw)} } : TRUE

\* the loop of buildResponseCurve from sample k on; `simulated` keeps, in each
\* recorded point, the net output the simulation gave before the flat-line
\* correction
RECURSIVE sampleCurve(_, _, _, _, _, _)
sampleCurve(route, sampleInputs, gasPerHopInOutputTokensRaw, k, curve, capacityReached) ==
  IF k > Len(sampleInputs) \/ capacityReached THEN curve
  ELSE LET inputRaw   == sampleInputs[k]
           gasCostRaw == Len(route) * gasPerHopInOutputTokensRaw
           prevOutputRaw == IF curve = <<>> THEN 0 ELSE curve[Len(curve)].outputRaw
       IN  CHOOSE built \in
             { LET collapsed  == Len(curve) > 0 /\ netRaw < prevOutputRaw
                   outputRaw  == IF collapsed THEN prevOutputRaw ELSE netRaw
                   marginalRaw ==
                     IF Len(curve) > 0
                     THEN LET prevPoint == curve[Len(curve)]
                              deltaOut  == outputRaw - prevPoint.outputRaw
                              deltaIn   == inputRaw - prevPoint.inputRaw
                          IN  IF deltaIn > 0 THEN rate(deltaOut, deltaIn) ELSE 0
                     ELSE IF inputRaw > 0 THEN rate(outputRaw, inputRaw) ELSE 0
               IN  sampleCurve(route, sampleInputs, gasPerHopInOutputTokensRaw, k + 1,
                               Append(curve, [inputRaw    |-> inputRaw,
                                              outputRaw   |-> outputRaw,
                                              marginalRaw |-> marginalRaw,
                                              simulated   |-> netRaw]),
                               collapsed)
               : netRaw \in {Max(0, simulateRoute(route, inputRaw) - gasCostRaw)} } : TRUE

buildResponseCurve(route, totalInputHuman, sourceToken, gasPerHopInOutputTokensRaw) ==
  sampleCurve(route,
              generateSamplePoints(totalInputHuman * Pow10(sourceToken.decimals)),
              gasPerHopInOutputTokensRaw, 1, <<>>, FALSE)

\* analyzeRouteCapacity
analyzeRouteCapacity(curve) ==
  IF curve = <<>> THEN 0
  ELSE IF curve[1].marginalRaw <= 0 THEN 0
  ELSE curve[Len(curve)].inputRaw

\* interpolateMarginal: linear between the marginals of the bracketing samples
interpolateMarginal(curve, allocatedSoFarRaw) ==
  IF allocatedSoFarRaw <= 0
  THEN IF curve = <<>> THEN 0 ELSE curve[1].marginalRaw
  ELSE LET below == {k \in 1 .. Len(curve) : curve[k].inputRaw < allocatedSoFarRaw}
           i     == Cardinality(below) + 1
       IN  IF i > Len(curve)
           THEN IF curve = <<>> THEN 0 ELSE curve[Len(curve)].marginalRaw
           ELSE IF i = 1 THEN curve[1].marginalRaw
           ELSE LET p0 == curve[i - 1]
                    p1 == curve[i]
                    deltaInput == p1.inputRaw - p0.inputRaw
                IN  IF deltaInput = 0 THEN p0.marginalRaw
                    ELSE p0.marginalRaw
                           + rateMul(allocatedSoFarRaw - p0.inputRaw, deltaInput,
                                     p1.marginalRaw - p0.marginalRaw)

\* findAllocationForMarginal: the 60-step bisection, cut short once the
\* bracket no longer moves on the raw grid
RECURSIVE bisectInput(_, _, _, _, _)
bisectInput(curve, targetMarginal, low, high, iter) ==
  IF iter >= BisectSteps THEN high
  ELSE CHOOSE found \in
         { IF next = <<low, high>> THEN high
           ELSE bisectInput(curve, targetMarginal, next[1], next[2], iter + 1)
           : next \in { LET mid == (low + high) \div 2
                        IN  IF interpolateMarginal(curve, mid) > targetMarginal
                            THEN <<mid, high>> ELSE <<low, mid>> } } : TRUE

findAllocationForMarginal(curve, currentInputRaw, targetMarginal, capacityRaw, tol) ==
  LET currentMarginal == interpolateMarginal(curve, currentInputRaw)
      minMarginal     == interpolateMarginal(curve, capacityRaw)
  IN  IF targetMarginal >= currentMarginal - tol * MScale
      THEN [inputRaw |-> currentInputRaw, reachable |-> TRUE]
      ELSE IF targetMarginal <= minMarginal + tol * MScale
      THEN [inputRaw |-> capacityRaw, reachable |-> FALSE]
      ELSE [inputRaw |-> Min(bisectInput(curve, targetMarginal,
                                         currentInputRaw, capacityRaw, 0),
                             capacityRaw),
            reachable |-> TRUE]

\* computeTotalsForLevel over activeIndices[k..]
RECURSIVE computeTotalsFrom(_, _, _, _, _, _, _, _)
computeTotalsFrom(activeIndices, k, levelMarginal, curves, allocations, capacities, tol, acc) ==
  IF k > Len(activeIndices) THEN acc
  ELSE LET idx          == activeIndices[k]
           capacity     == capacities[idx]
           currentInput == allocations[idx]
       IN  CHOOSE totals \in
             { computeTotalsFrom(activeIndices, k + 1, levelMarginal, curves,
                                 allocations, capacities, tol, next)
               : next \in
                   { LET nextInput == IF found.reachable
                                      THEN Min(found.inputRaw, capacity) ELSE capacity
                         delta     == Max(0, nextInput - currentInput)
                     IN  [totalDelta   |-> acc.totalDelta + delta,
                          updates      |-> Append(acc.updates,
                                             [idx |-> idx, nextInput |-> nextInput,
                                              delta |-> delta,
                                              reachable |-> found.reachable]),
                          saturated    |-> IF ~found.reachable
                                              /\ capacity - currentInput <= tol
                                           THEN Append(acc.saturated, idx)
                                           ELSE acc.saturated,
                          allReachable |-> acc.allReachable /\ found.reachable]
                     : found \in { findAllocationForMarginal(curves[idx], currentInput,
                                     levelMarginal, capacity, tol) } } } : TRUE

\* computeTotalsForLevel reading twice the capacity of every path
computeTotalsPastCapacity(activeIndices, levelMarginal, curves, allocations, capacities, tol) ==
  computeTotalsFrom(activeIndices, 1, levelMarginal, curves, allocations,
                    [i \in 1 .. Len(capacities) |-> 2 * capacities[i]], tol,
                    [totalDelta |-> 0, updates |-> <<>>, saturated |-> <<>>,
                     allReachable |-> TRUE])

computeTotalsForLevel(activeIndices, levelMarginal, curves, allocations, capacities, tol) ==
  computeTotalsFrom(activeIndices, 1, levelMarginal, curves, allocations,
                    capacities, tol,
                    [totalDelta |-> 0, updates |-> <<>>, saturated |-> <<>>,
                     allReachable |-> TRUE])

(***************************************************************************)
(* Priority-queue water-fill: allocateWaterfillPQ                          *)
(***************************************************************************)
\* Array.prototype.sort((a, b) => currentMarginals[b] - currentMarginals[a])
RECURSIVE InsertByMarginal(_, _, _)
InsertByMarginal(sorted, i, currentMarginals) ==
  IF sorted = <<>> THEN <<i>>
  ELSE IF currentMarginals[Head(sorted)] >= currentMarginals[i]
       THEN <<Head(sorted)>> \o InsertByMarginal(Tail(sorted), i, currentMarginals)
       ELSE <<i>> \o sorted

RECURSIVE sortedIndicesFrom(_, _, _, _)
sortedIndicesFrom(k, effectiveCapacities, currentMarginals, tol) ==
  IF k = 0 THEN <<>>
  ELSE LET rest == sortedIndicesFrom(k - 1, effectiveCapacities, currentMarginals, tol)
       IN  IF effectiveCapacities[k] > tol /\ currentMarginals[k] > tol * MScale
           THEN InsertByMarginal(rest, k, currentMarginals)
           ELSE rest

\* the state allocateWaterfillPQ starts its loop with
startWaterfill(curves, totalInputRaw, capacities, tol) ==
  LET numRoutes == Len(curves)
      effectiveCapacities ==
        IF capacities # <<>> /\ Len(capacities) = numRoutes THEN capacities
        ELSE [i \in 1 .. numRoutes |->
                IF curves[i] = <<>> THEN 0 ELSE curves[i][Len(curves[i])].inputRaw]
      currentMarginals == [i \in 1 .. numRoutes |-> interpolateMarginal(curves[i], 0)]
  IN  [allocations         |-> [i \in 1 .. numRoutes |-> 0],
       effectiveCapacities |-> effectiveCapacities,
       currentMarginals    |-> currentMarginals,
       sortedIndices       |-> sortedIndicesFrom(numRoutes, effectiveCapacities,
                                                 currentMarginals, tol),
       active              |-> <<>>,
       pointer             |-> 0,
       iterations          |-> 0,
       routesSaturated     |-> 0,
       remaining           |-> totalInputRaw,
       branch              |-> "none"]

SeqWithout(s, x) == SelectSeq(s, LAMBDA y : y # x)

SetAdd(s, x) == IF x \in Range(s) THEN s ELSE Append(s, x)

\* addNextRoute: activate the next index of sortedIndices that still qualifies
RECURSIVE addNextRoute(_, _)
addNextRoute(w, tol) ==
  IF w.pointer >= Len(w.sortedIndices) THEN [w |-> w, added |-> FALSE]
  ELSE LET idx == w.sortedIndices[w.pointer + 1]
           w1  == [w EXCEPT !.pointer = @ + 1]
       IN  IF w.effectiveCapacities[idx] <= tol
              \/ w.currentMarginals[idx] <= tol * MScale
           THEN addNextRoute(w1, tol)
           ELSE [w |-> [w1 EXCEPT !.active = SetAdd(@, idx)], added |-> TRUE]

\* applyUpdates over updates[k..]
RECURSIVE applyUpdatesFrom(_, _, _, _, _, _, _, _)
applyUpdatesFrom(w, curves, updates, k, limit, tol, used, newlySaturated) ==
  IF k > Len(updates)
  THEN [w |-> w, used |-> used, newlySaturated |-> newlySaturated]
  ELSE LET idx   == updates[k].idx
           delta == Min(updates[k].delta, Max(0, limit - used))
           newAlloc == w.allocations[idx] + delta
           remainingCapacity == w.effectiveCapacities[idx] - newAlloc
       IN  IF delta <= tol
           THEN applyUpdatesFrom(w, curves, updates, k + 1, limit, tol, used,
                                 newlySaturated)
           ELSE CHOOSE applied \in
                  { IF next.used >= limit - tol THEN next
                    ELSE applyUpdatesFrom(next.w, curves, updates, k + 1, limit, tol,
                                          next.used, next.newlySaturated)
                    : next \in
                        { [w    |-> [w EXCEPT
                                       !.allocations[idx] = newAlloc,
                                       !.currentMarginals[idx] =
                                          interpolateMarginal(curves[idx], newAlloc)],
                           used |-> used + delta,
                           newlySaturated |->
                             IF remainingCapacity <= tol
                             THEN Append(newlySaturated, idx)
                             ELSE newlySaturated] } } : TRUE

\* remaining -= used (recomputed from the allocations when nothing was used)
\* and the removal of the newly saturated routes from the active set
RECURSIVE dropSaturated(_, _)
dropSaturated(w, newlySaturated) ==
  IF newlySaturated = <<>> THEN w
  ELSE LET idx == Head(newlySaturated)
       IN  dropSaturated(
             IF idx \in Range(w.active)
             THEN [w EXCEPT !.active = SeqWithout(@, idx),
                            !.routesSaturated = @ + 1]
             ELSE w,
             Tail(newlySaturated))

settle(applied, totalInputRaw, tol) ==
  LET w1 == [applied.w EXCEPT !.remaining = @ - applied.used]
      w2 == IF applied.used <= tol
            THEN [w1 EXCEPT !.remaining =
                    Max(0, totalInputRaw - SeqSum(w1.allocations))]
            ELSE w1
  IN  dropSaturated(w2, applied.newlySaturated)

\* the 60-step bisection on the level, cut short once the bracket no longer
\* moves on the fixed-point grid
RECURSIVE bisectLevel(_, _, _, _, _, _, _, _)
bisectLevel(w, curves, activeIndices, tol, low, high, bestUpdates, iter) ==
  IF iter >= BisectSteps THEN bestUpdates
  ELSE CHOOSE best \in
         { IF next.low = low /\ next.high = high THEN next.bestUpdates
           ELSE bisectLevel(w, curves, activeIndices, tol, next.low, next.high,
                            next.bestUpdates, iter + 1)
           : next \in
               { LET mid == (low + high) \div 2
                 IN  IF totals.totalDelta > w.remaining + tol
                     THEN [low |-> mid, high |-> high, bestUpdates |-> bestUpdates]
                     ELSE [low |-> low, high |-> mid, bestUpdates |-> totals]
                 : totals \in { computeTotalsForLevel(activeIndices,
                                  (low + high) \div 2, curves, w.allocations,
                                  w.effectiveCapacities, tol) } } } : TRUE

\* the clean-up at the end of a loop pass (lines 629-638)
RECURSIVE retireExhausted(_, _, _)
retireExhausted(w, activeIndices, tol) ==
  IF activeIndices = <<>> THEN w
  ELSE LET idx == Head(activeIndices)
           remainingCapacity == w.effectiveCapacities[idx] - w.allocations[idx]
       IN  retireExhausted(
             IF remainingCapacity <= tol \/ w.currentMarginals[idx] <= tol * MScale
             THEN [w EXCEPT !.active = SeqWithout(@, idx),
                            !.routesSaturated = @ + 1]
             ELSE w,
             Tail(activeIndices), tol)

MaxOf(s) == CHOOSE m \in Range(s) : \A x \in Range(s) : m >= x

\* one pass of the body of `while (remaining > effectiveTol && iterations <
\* maxIter)`; running tells whether the loop goes on to its next test
waterfillPass(w0, curves, totalInputRaw, tol) ==
  LET w == [w0 EXCEPT !.iterations = @ + 1]
  IN  IF w.active = <<>>
      THEN LET r == addNextRoute(w, tol)
           IN  [w |-> [r.w EXCEPT !.branch = "activate"], running |-> r.added]
      ELSE
        LET activeIndices == w.active
            currentLevel  == MaxOf([k \in 1 .. Len(activeIndices) |->
                                      w.currentMarginals[activeIndices[k]]])
            nextLevel     == IF w.pointer < Len(w.sortedIndices)
                             THEN w.currentMarginals[w.sortedIndices[w.pointer + 1]]
                             ELSE 0
            targetLevel   == IF nextLevel > currentLevel THEN currentLevel
                             ELSE nextLevel
        IN  CHOOSE pass \in
              { IF w3.remaining <= tol THEN [w |-> w3, running |-> FALSE]
                ELSE [w |-> retireExhausted(w3, w3.active, tol), running |-> TRUE]
                : w3 \in
                    { LET direct == totalsAtTarget.totalDelta <= w.remaining + tol
                                      /\ totalsAtTarget.allReachable
                      IN  CHOOSE after \in
                            { [ (IF direct /\ w1.pointer < Len(w1.sortedIndices)
                                    /\ w1.remaining > tol
                                 THEN addNextRoute(w1, tol).w ELSE w1)
                                EXCEPT !.branch = IF direct THEN "level" ELSE "bisect" ]
                              : w1 \in
                                  { settle(applied, totalInputRaw, tol)
                                    : applied \in
                                        { applyUpdatesFrom(w, curves, bestUpdates.updates,
                                            1, Min(w.remaining, bestUpdates.totalDelta),
                                            tol, 0, <<>>)
                                          : bestUpdates \in
                                              { IF direct THEN totalsAtTarget
                                                ELSE bisectLevel(w, curves, activeIndices,
                                                       tol, targetLevel, currentLevel,
                                                       totalsAtTarget, 0) } } } } : TRUE
                      : totalsAtTarget \in
                          { computeTotalsForLevel(activeIndices, targetLevel, curves,
                              w.allocations, w.effectiveCapacities, tol) } } } : TRUE

(***************************************************************************)
(* optimizeRouteSplittingWaterfill and its helpers                         *)
(***************************************************************************)
\* simulateRoute(route, 1e-6) is non-zero: a double that small still comes out
\* of every hop non-zero exactly when each hop finds both tokens with
\* non-zero reserves and the fee leaves something of the input
swapsThrough(route) ==
  \A k \in 1 .. Len(route) :
    LET tokenIn  == FindToken(route[k].pool, route[k].fromAddr)
        tokenOut == FindToken(route[k].pool, route[k].toAddr)
    IN  /\ tokenIn # NoToken /\ tokenOut # NoToken
        /\ tokenIn.reserve # 0 /\ tokenOut.reserve # 0
        /\ route[k].pool.fee < FeeDen

validateRoute(route, maxHops) ==
  IF route = <<>> THEN FALSE
  ELSE IF Len(route) > maxHops THEN FALSE
  ELSE IF \E a, b \in 1 .. Len(route) : a < b /\ route[a].poolId = route[b].poolId
  THEN FALSE
  ELSE swapsThrough(route)

\* route.map(hop => hop.poolId).join('-')
getRouteSignature(route) == [k \in 1 .. Len(route) |-> route[k].poolId]

\* deduplicateRoutes: the first route of every signature, in order
RECURSIVE deduplicateRoutes(_)
deduplicateRoutes(routeList) ==
  IF routeList = <<>> THEN <<>>
  ELSE LET front == deduplicateRoutes(SubSeq(routeList, 1, Len(routeList) - 1))
           route == routeList[Len(routeList)]
       IN  IF \E k \in 1 .. Len(front) :
                getRouteSignature(front[k]) = getRouteSignature(route)
           THEN front ELSE Append(front, route)

\* deduplicateRoutes: the capacities of the routes it keeps; <<>> stands for
\* null (no routeCapacities option)
RECURSIVE dedupedCapacitiesOf(_, _)
dedupedCapacitiesOf(routeList, routeCapacities) ==
  IF routeList = <<>> \/ routeCapacities = <<>> THEN <<>>
  ELSE LET n     == Len(routeList)
           front == SubSeq(routeList, 1, n - 1)
           caps  == dedupedCapacitiesOf(front, routeCapacities)
       IN  IF \E k \in 1 .. n - 1 :
                getRouteSignature(front[k]) = getRouteSignature(routeList[n])
           THEN caps
           ELSE Append(caps, IF n <= Len(routeCapacities)
                             THEN routeCapacities[n] ELSE Undefined)

\* lines 997-1016: the minimum of the external and the curve-based capacity
\* when the external list matches the routes, the curve-based one otherwise
finalCapacitiesOf(externalCapacities, capacities) ==
  IF externalCapacities # <<>> /\ Len(externalCapacities) = Len(capacities)
  THEN [i \in 1 .. Len(capacities) |-> Min(externalCapacities[i], capacities[i])]
  ELSE capacities

\* inferEndpointToken over routes[i..]: threw stands for the Error it throws
RECURSIVE inferEndpointFrom(_, _, _, _)
inferEndpointFrom(routeList, i, endpoint, inferred) ==
  IF i > Len(routeList) THEN [threw |-> FALSE, token |-> inferred]
  ELSE IF routeList[i] = <<>>
  THEN inferEndpointFrom(routeList, i + 1, endpoint, inferred)
  ELSE LET route == routeList[i]
           hop   == IF endpoint = "source" THEN route[1] ELSE route[Len(route)]
           tokenAddr == IF endpoint = "source" THEN hop.fromAddr ELSE hop.toAddr
           token == FindToken(hop.pool, tokenAddr)
       IN  IF token = NoToken
           THEN inferEndpointFrom(routeList, i + 1, endpoint, inferred)
           ELSE IF inferred = NoToken
           THEN inferEndpointFrom(routeList, i + 1, endpoint,
                                  [NoToken EXCEPT !.addr = token.addr,
                                                  !.decimals = token.decimals])
           ELSE IF inferred.addr # token.addr \/ inferred.decimals # token.decimals
           THEN [threw |-> TRUE, token |-> inferred]
           ELSE inferEndpointFrom(routeList, i + 1, endpoint, inferred)

inferEndpointToken(routeList, endpoint) ==
  inferEndpointFrom(routeList, 1, endpoint, NoToken)

resolveEndpointMetadata(routeList, sourceHint, targetHint) ==
  LET sourceFromRoutes == inferEndpointToken(routeList, "source")
      targetFromRoutes == inferEndpointToken(routeList, "target")
      resolvedSource == IF sourceFromRoutes.token # NoToken
                        THEN sourceFromRoutes.token ELSE sourceHint
      resolvedTarget == IF targetFromRoutes.token # NoToken
                        THEN targetFromRoutes.token ELSE targetHint
  IN  [threw       |-> sourceFromRoutes.threw \/ targetFromRoutes.threw
                         \/ resolvedSource = NoToken \/ resolvedTarget = NoToken,
       sourceToken |-> resolvedSource,
       targetToken |-> resolvedTarget]

\* buildResponseCurves with minInitialEffRatio = 0: nothing is filtered
buildResponseCurves(routeList, totalInputHuman, sourceToken, gasPerHopInOutputTokensRaw) ==
  LET curves == [i \in 1 .. Len(routeList) |->
                   buildResponseCurve(routeList[i], totalInputHuman, sourceToken,
                                      gasPerHopInOutputTokensRaw)]
  IN  [routes     |-> routeList,
       curves     |-> curves,
       capacities |-> [i \in 1 .. Len(routeList) |-> analyzeRouteCapacity(curves[i])]]

\* the index of the first maximum: indexOf(Math.max(...cleanAllocations))
firstMaxIndex(s) ==
  CHOOSE i \in 1 .. Len(s) :
    /\ \A j \in 1 .. Len(s) : s[i] >= s[j]
    /\ \A j \in 1 .. i - 1 : s[j] < s[i]

\* a normalization that only rescales, keeping dust
normalizeScaleOnly(allocations, totalInputRaw) ==
  IF SeqSum(allocations) = 0 THEN allocations
  ELSE [i \in 1 .. Len(allocations) |->
          RoundDiv(allocations[i] * totalInputRaw, SeqSum(allocations))]

\* minAllocation = totalInputRaw * minPct, minPct = 0.001, compared exactly
MinPctDen == 1000

normalizeAllocations(allocations, totalInputRaw) ==
  LET sumBefore    == SeqSum(allocations)
      sumDiff      == Abs(sumBefore - totalInputRaw)
      toleranceRaw == Max(1, totalInputRaw \div 1000000000)
      isDust(amt)  == amt * MinPctDen < totalInputRaw /\ amt > 0
      satisfiesMin == \A i \in 1 .. Len(allocations) :
                        allocations[i] = 0 \/ ~isDust(allocations[i])
      dustTotal    == SeqSum([i \in 1 .. Len(allocations) |->
                        IF isDust(allocations[i]) THEN allocations[i] ELSE 0])
      cleaned      == [i \in 1 .. Len(allocations) |->
                        IF isDust(allocations[i]) THEN 0 ELSE allocations[i]]
      bestIdx      == firstMaxIndex(cleaned)
      cleanAllocations ==
        IF dustTotal > 0
        THEN [i \in 1 .. Len(allocations) |->
                IF i = bestIdx THEN cleaned[i] + dustTotal ELSE cleaned[i]]
        ELSE cleaned
      currentTotal == SeqSum(cleanAllocations)
  IN  IF sumDiff <= toleranceRaw /\ satisfiesMin THEN allocations
      ELSE IF currentTotal = 0 THEN cleanAllocations
      ELSE [i \in 1 .. Len(allocations) |->
              RoundDiv(cleanAllocations[i] * totalInputRaw, currentTotal)]

\* simulateAllocation with gasPolicy 'per-route': routes given 0 are skipped
RECURSIVE simulateAllocationFrom(_, _, _, _, _, _)
simulateAllocationFrom(routeList, allocationsRaw, gasPerHopInOutputTokensRaw, curves, i, acc) ==
  IF i > Len(routeList) THEN acc
  ELSE LET route    == routeList[i]
           inputRaw == allocationsRaw[i]
           gasCostRaw == Len(route) * gasPerHopInOutputTokensRaw
           outputRaw == Max(0, simulateRoute(route, inputRaw) - gasCostRaw)
       IN  simulateAllocationFrom(routeList, allocationsRaw,
             gasPerHopInOutputTokensRaw, curves, i + 1,
             IF inputRaw = 0 THEN acc
             ELSE [acc EXCEPT
                     !.totalOutputRaw = @ + outputRaw,
                     !.routes = Append(@,
                        [routeIdx  |-> i,
                         inputRaw  |-> inputRaw,
                         outputRaw |-> outputRaw,
                         hops      |-> Len(route),
                         effRate   |-> interpolateMarginal(curves[i], inputRaw),
                         gasCostRaw |-> gasCostRaw])])

simulateAllocation(routeList, allocationsRaw, gasPerHopInOutputTokensRaw, curves) ==
  simulateAllocationFrom(routeList, allocationsRaw, gasPerHopInOutputTokensRaw,
                         curves, 1,
                         [totalInputRaw  |-> SeqSum(allocationsRaw),
                          totalOutputRaw |-> 0,
                          routes         |-> <<>>,
                          isNull         |-> FALSE,
                          iterations     |-> 0])

(***************************************************************************)
(* Pool snapshots the requests run on                                      *)
(***************************************************************************)
P0 == Pool("P0", 3, Tok("APT", 1000, 2), Tok("USDC", 4000, 1))
P1 == Pool("P1", 3, Tok("APT", 1000, 2), Tok("USDC", 4010, 1))
P2 == Pool("P2", 0, Tok("APT", 2000, 2), Tok("USDT", 2000, 1))
P3 == Pool("P3", 3, Tok("USDT", 1000, 1), Tok("USDC", 8000, 1))
P4 == Pool("P4", 3, Tok("APT", 1000, 2), Tok("WETH", 500, 2))
P5 == Pool("P5", 3, Tok("WETH", 500, 2), Tok("USDC", 8000, 1))
P6 == Pool("P6", 0, Tok("WETH", 1000, 2), Tok("USDT", 2000, 1))
P7 == Pool("P7", 3, Tok("APT", 1000, 2), Tok("USDC", 2000, 1))

\* two routes APT -> USDC over pools with the same reserves and fee (equal
\* scores to the last bit) and a third, cheaper one
E1 == Pool("E1", 0, Tok("APT", 1000, 2), Tok("USDT", 1000, 1))
E2 == Pool("E2", 0, Tok("USDT", 1000, 1), Tok("USDC", 1000, 1))
E3 == Pool("E3", 0, Tok("APT", 1000, 2), Tok("WETH", 1000, 2))
E4 == Pool("E4", 0, Tok("WETH", 1000, 2), Tok("USDC", 1000, 1))
E5 == Pool("E5", 0, Tok("APT", 1000, 2), Tok("T05", 500, 2))
E6 == Pool("E6", 0, Tok("T05", 1000, 2), Tok("USDC", 1000, 1))
EqualRoutes == <<E1, E2, E3, E4, E5, E6>>

PoolLists ==
  { <<P0>>,
    EqualRoutes,
    <<P0, P1, P7>>,
    <<P0, P2, P3>>,
    <<P2, P3, P4, P5>>,
    <<P0, P2, P3, P4, P5, P6>>,
    <<P7, P6, P5, P4, P3, P2, P1, P0>> }

BeamWidths == {1, 2}

NoSearch == [frontier |-> <<>>, cands |-> <<>>, kthScore |-> NegInf, seen |-> {},
             bestAtDepth |-> <<>>, iterationCount |-> 0, nodesExplored |-> 0,
             nodesPruned |-> 0, found |-> 0, rejected |-> {}, evicted |-> {},
             threw |-> FALSE, stop |-> "none"]

(***************************************************************************)
(* Route evaluation and splitting: main after the search, and              *)
(* optimizeRouteSplittingWaterfill                                         *)
(***************************************************************************)
Hop(pool, fromAddr, toAddr) ==
  [pool |-> pool, poolId |-> pool.addr, fromAddr |-> fromAddr, toAddr |-> toAddr]

Direct(pool) == <<Hop(pool, "APT", "USDC")>>

Q1 == Pool("Q1", 0, Tok("APT", 2000, 2), Tok("USDC", 500000, 1))
Q2 == Pool("Q2", 0, Tok("APT", 10, 2), Tok("USDC", 1000, 1))
Q3 == Pool("Q3", 0, Tok("APT", 20, 2), Tok("USDC", 50000, 1))
Q4 == Pool("Q4", 0, Tok("APT", 1, 2), Tok("USDC", 5, 1))
Q5 == Pool("Q5", 0, Tok("APT", 5, 2), Tok("USDC", 5000, 1))

\* a thin pool and two deep ones; the thin route is capped at 4 raw units,
\* one ten-thousandth of a request of 400 source tokens (40000 raw)
Thin == Pool("Thin", 3, Tok("APT", 80, 2), Tok("USDC", 800, 1))
Deep1 == Pool("Deep1", 3, Tok("APT", 50000, 2), Tok("USDC", 50000, 1))
Deep2 == Pool("Deep2", 3, Tok("APT", 40000, 2), Tok("USDC", 40000, 1))
ThinDeepRoutes == <<Direct(Thin), Direct(Deep1), Direct(Deep2)>>
ThinDeepCapacities == <<4, Inf, Inf>>
ThinDeepInputs == {400}

\* a route list whose first route validateRoute rejects (it crosses Deep1
\* twice), with the capacities the caller has for its three routes
RejectedFirstRoutes ==
  << <<Hop(Deep1, "APT", "USDC"), Hop(Deep1, "USDC", "APT"), Hop(Deep2, "APT", "USDC")>>,
     Direct(Thin), Direct(Deep1) >>
RejectedFirstCapacities == <<Inf, 4, Inf>>

SplitRouteLists ==
  { <<Direct(P0)>>,
    <<Direct(Q1), Direct(Q2), Direct(Q3)>>,
    <<Direct(P0), <<Hop(P2, "APT", "USDT"), Hop(P3, "USDT", "USDC")>>, Direct(P7)>>,
    <<Direct(P0), Direct(P0), Direct(P7)>>,
    <<Direct(Q4)>>,
    <<Direct(P0), <<Hop(P2, "APT", "USDT")>> >>,
    <<Direct(Q5)>>,
    << <<Hop(P0, "APT", "USDC"), Hop(P0, "USDC", "APT"), Hop(P7, "APT", "USDC")>> >> }

TotalInputs == {20, 40}      \* swapAmount, in whole source tokens
GasPerHopUSDs == {0, 5}
Tols == {0, 2}               \* the tol option, in raw units
DefaultMaxHops == 3

NullResult ==
  [totalInputRaw |-> 0, totalOutputRaw |-> 0, routes |-> <<>>, isNull |-> TRUE,
   iterations |-> 0]

VARIABLES
  sp,        \* position of the evaluation and splitting of a route list
  request,   \* the route list, the amount and the options
  best,      \* what selectBestRoute returned
  prep,      \* routes, curves, capacities and amounts the allocation runs on
  wf,        \* the state of the loop of allocateWaterfillPQ
  result     \* what optimizeRouteSplittingWaterfill returned

splitVars == <<sp, request, best, prep, wf, result>>

\* the tokens the requests name
RequestTokens == {"APT", "USDC", "USDT", "WETH"}

\* a mesh of pools: one pool for every pair of MeshTokens, at prices that
\* differ from pair to pair
MeshTokens == <<"APT", "USDT", "WETH", "T05", "T06", "T07", "T08", "T09", "T10">>

meshRow(i) ==
  [k \in 1 .. (Len(MeshTokens) - i) |->
     Pool(MeshTokens[i] \o "/" \o MeshTokens[i + k], 0,
          Tok(MeshTokens[i], 1000, 2),
          Tok(MeshTokens[i + k], 1000 * Pow2((i * k) % 5), 2))]

RECURSIVE meshFrom(_)
meshFrom(i) == IF i >= Len(MeshTokens) THEN <<>> ELSE meshRow(i) \o meshFrom(i + 1)

Init ==
  /\ pc = "request"
  /\ cfg \in [ pools            : PoolLists,
               source           : RequestTokens,
               target           : RequestTokens,
               maxHops          : 1 .. MaxHopsBound,
               topK             : 1 .. TopKBound,
               beamWidth        : BeamWidths,
               gasPerHopPenalty : 0 .. GasPenaltyBound ]
  /\ adjId = <<>>
  /\ heuristicCache = <<>>
  /\ heuristicResult = NoHeuristic
  /\ heuristicArr = <<>>
  /\ search = NoSearch
  /\ routes = <<>>
  /\ sp = "off"
  /\ request = <<>>
  /\ best = [route |-> NoRoute, output |-> 0]
  /\ prep = <<>>
  /\ wf = <<>>
  /\ result = NullResult

\* main, lines 1095-1127: build, compress, number the graph; heuristic
Preprocess ==
  /\ pc = "request"
  /\ LET adj == compressParallelEdges(buildAdjacencyMap(cfg.pools))
         heuristicCall == cachedReverseHeuristic(heuristicCache, adj, cfg.target,
                                                 cfg.gasPerHopPenalty, TRUE)
     IN  /\ adjId' = buildNumericAdjacency(adj)
         /\ heuristicResult' = heuristicCall.value
         /\ heuristicCache' = heuristicCall.cache
         /\ heuristicArr' = IF heuristicCall.value.shape = "record"
                            THEN heuristicCall.value.heuristicArr
                            ELSE heuristicArrOf(heuristicCall.value.dist)
  /\ pc' = "ready"
  /\ UNCHANGED <<cfg, search, routes>>
  /\ UNCHANGED splitVars

\* findTopKRoutesAStar up to its main loop (lines 508-629)
AStarStart ==
  /\ pc = "ready"
  /\ IF cfg.source = cfg.target
     THEN /\ pc' = "done"
          /\ routes' = <<>>
          /\ UNCHANGED search
     ELSE IF tokenToId(cfg.source) = Undefined
     THEN \* bitsetAdd(0n, undefined): BigInt(undefined) is a TypeError
          /\ search' = [NoSearch EXCEPT !.threw = TRUE]
          /\ pc' = "threw"
          /\ UNCHANGED routes
     ELSE LET sourceId == tokenToId(cfg.source)
              targetId == tokenToId(cfg.target)
              sourceH  == heuristicArr[sourceId]
              s0 == [NoSearch EXCEPT
                       !.frontier = heapPush(-1, <<>>,
                          [key |-> 0 - sourceH - cfg.gasPerHopPenalty * cfg.maxHops,
                           st  |-> [nodeId      |-> sourceId,
                                    path        |-> <<>>,
                                    visitedBits |-> {sourceId},
                                    score       |-> 0,
                                    prio        |-> 0 - sourceH
                                                      - cfg.gasPerHopPenalty * cfg.maxHops,
                                    hops        |-> 0,
                                    prevNodeId  |-> Undefined]]),
                       !.bestAtDepth = [id \in TokenIds |->
                                          [d \in 0 .. cfg.maxHops |-> NegInf]]]
          IN  /\ search' = seedDirect(s0, cfg, sourceId, targetId, adjId[sourceId])
              /\ pc' = "loop"
              /\ UNCHANGED routes
  /\ UNCHANGED <<cfg, adjId, heuristicArr>>
  /\ UNCHANGED splitVars
  /\ UNCHANGED cacheVars

\* one evaluation of the loop test and, if it passes, one round of the main
\* loop (lines 631-788); timeUp is the outcome of the wall-clock test
AStarRound ==
  /\ pc = "loop"
  /\ \E timeUp \in IF (search.iterationCount + 1) % TimeCheckEvery = 0
                   THEN BOOLEAN ELSE {FALSE} :
       LET targetId == tokenToId(cfg.target)
           s1 == [search EXCEPT !.iterationCount = @ + 1]
       IN  IF ~(Len(search.frontier) > 0
                /\ search.iterationCount < ASTAR_MAX_ITERATIONS)
           THEN /\ search' = [search EXCEPT !.stop = "exhausted"]
                /\ pc' = "post"
           ELSE IF timeUp
           THEN /\ search' = [s1 EXCEPT !.stop = "time"]
                /\ pc' = "post"
           ELSE IF Len(s1.cands) >= cfg.topK
                   /\ heapPeek(s1.frontier).st.prio <= s1.kthScore
           THEN /\ search' = [s1 EXCEPT !.stop = "early"]
                /\ pc' = "post"
           ELSE LET s2 == expandBeam(s1, cfg, targetId, 0,
                                     Min(Len(s1.frontier), cfg.beamWidth))
                IN  IF s2.threw
                    THEN /\ search' = s2
                         /\ pc' = "threw"
                    ELSE /\ search' = [s2 EXCEPT !.frontier =
                                          capFrontier(@, FRONTIER_CAP(cfg))]
                         /\ pc' = "loop"
  /\ UNCHANGED <<cfg, adjId, heuristicArr, routes>>
  /\ UNCHANGED splitVars
  /\ UNCHANGED cacheVars

\* lines 798-821: sort the candidates best first and attach capRaw
AStarFinish ==
  /\ pc = "post"
  /\ LET sorted == toSortedArray(1, search.cands)
     IN  routes' = [r \in 1 .. Len(sorted) |->
                      [hops   |-> sorted[r].route,
                       capRaw |-> capRawOf(sorted[r].route),
                       score  |-> sorted[r].key,
                       seq    |-> sorted[r].seq]]
  /\ pc' = "done"
  /\ UNCHANGED <<cfg, adjId, heuristicArr, search>>
  /\ UNCHANGED splitVars
  /\ UNCHANGED cacheVars

\* requests on the mesh with the default topK: searches of more than a
\* hundred rounds
InitBudget ==
  /\ pc = "request"
  /\ cfg \in [ pools            : {<<P0, P3, P5>> \o meshFrom(1)},
               source           : {"APT"},
               target           : {"USDC"},
               maxHops          : {Len(MeshTokens) - 1},
               topK             : {40},
               beamWidth        : {1},
               gasPerHopPenalty : {0, 1} ]
  /\ adjId = <<>>
  /\ heuristicCache = <<>>
  /\ heuristicResult = NoHeuristic
  /\ heuristicArr = <<>>
  /\ search = NoSearch
  /\ routes = <<>>
  /\ sp = "off"
  /\ request = <<>>
  /\ best = [route |-> NoRoute, output |-> 0]
  /\ prep = <<>>
  /\ wf = <<>>
  /\ result = NullResult

\* requests that name an address the dictionary lacks, or maxHops = 0
UnknownToken == "XYZ"

InitInvalid ==
  /\ pc = "request"
  /\ cfg \in { c \in [ pools            : PoolLists,
                        source           : RequestTokens \cup {UnknownToken},
                        target           : RequestTokens \cup {UnknownToken},
                        maxHops          : 0 .. 2,
                        topK             : {1, TopKBound},
                        beamWidth        : {1},
                        gasPerHopPenalty : {0} ] :
                 \/ c.source = UnknownToken
                 \/ c.target = UnknownToken
                 \/ c.maxHops = 0 }
  /\ adjId = <<>>
  /\ heuristicCache = <<>>
  /\ heuristicResult = NoHeuristic
  /\ heuristicArr = <<>>
  /\ search = NoSearch
  /\ routes = <<>>
  /\ sp = "off"
  /\ request = <<>>
  /\ best = [route |-> NoRoute, output |-> 0]
  /\ prep = <<>>
  /\ wf = <<>>
  /\ result = NullResult

vars == <<pc, cfg, adjId, heuristicArr, search, routes, heuristicCache,
          heuristicResult, sp, request, best, prep, wf, result>>

Next == Preprocess \/ AStarStart \/ AStarRound \/ AStarFinish

Spec == Init /\ [][Next]_vars

SpecBudget == InitBudget /\ [][Next]_vars

SpecInvalid == InitInvalid /\ [][Next]_vars

InitSplit ==
  /\ pc = "off"
  /\ cfg = <<>>
  /\ adjId = <<>>
  /\ heuristicCache = <<>>
  /\ heuristicResult = NoHeuristic
  /\ heuristicArr = <<>>
  /\ search = NoSearch
  /\ routes = <<>>
  /\ sp = "request"
  /\ request \in [ routes          : SplitRouteLists,
                   totalInputHuman : TotalInputs,
                   gasPerHopUSD    : GasPerHopUSDs,
                   tol             : Tols,
                   maxIterations   : {2, MaxIterBound},
                   enableCapacityConstraints : BOOLEAN,
                   routeCapacities : {<<>>},
                   sourceToken     : {[NoToken EXCEPT !.addr = "APT", !.decimals = 2]},
                   targetToken     : {[NoToken EXCEPT !.addr = "USDC", !.decimals = 1]} ]
         \cup
                 [ routes          : {ThinDeepRoutes},
                   totalInputHuman : ThinDeepInputs,
                   gasPerHopUSD    : {0},
                   tol             : {0},
                   maxIterations   : {MaxIterBound},
                   enableCapacityConstraints : BOOLEAN,
                   routeCapacities : {ThinDeepCapacities},
                   sourceToken     : {[NoToken EXCEPT !.addr = "APT", !.decimals = 2]},
                   targetToken     : {[NoToken EXCEPT !.addr = "USDC", !.decimals = 1]} ]
         \cup
                 [ routes          : {RejectedFirstRoutes},
                   totalInputHuman : ThinDeepInputs,
                   gasPerHopUSD    : {0},
                   tol             : {0},
                   maxIterations   : {MaxIterBound},
                   enableCapacityConstraints : BOOLEAN,
                   routeCapacities : {RejectedFirstCapacities},
                   sourceToken     : {[NoToken EXCEPT !.addr = "APT", !.decimals = 2]},
                   targetToken     : {[NoToken EXCEPT !.addr = "USDC", !.decimals = 1]} ]
  /\ best = [route |-> NoRoute, output |-> 0]
  /\ prep = <<>>
  /\ wf = <<>>
  /\ result = NullResult

\* main, lines 1148-1169: the amount in raw units, selectBestRoute, and the
\* read of bestResult.route[...], a TypeError when the route is null
SelectBest ==
  /\ sp = "request"
  /\ LET swapAmountRaw == request.totalInputHuman * Pow10(request.sourceToken.decimals)
         bestResult    == selectBestRoute(request.routes, swapAmountRaw,
                                          request.gasPerHopUSD)
     IN  /\ best' = bestResult
         /\ sp' = IF bestResult.route = NoRoute THEN "threw" ELSE "selected"
  /\ UNCHANGED <<request, prep, wf, result>>
  /\ UNCHANGED <<pc, cfg, adjId, heuristicArr, search, routes>>
  /\ UNCHANGED cacheVars

\* optimizeRouteSplittingWaterfill up to the loop of allocateWaterfillPQ
\* (lines 893-1054 and 470-518)
OptimizeStart ==
  /\ sp \in {"selected", "called"}
  /\ LET validRoutes == SelectSeq(request.routes,
                                  LAMBDA route : validateRoute(route, DefaultMaxHops))
         dedupedRoutes == deduplicateRoutes(validRoutes)
         resolvedTokens == resolveEndpointMetadata(dedupedRoutes, request.sourceToken,
                                                   request.targetToken)
         gasPerHopInOutputTokensRaw ==
           request.gasPerHopUSD * Pow10(resolvedTokens.targetToken.decimals)
         curvesBuilt == buildResponseCurves(dedupedRoutes, request.totalInputHuman,
                                            resolvedTokens.sourceToken,
                                            gasPerHopInOutputTokensRaw)
         totalInputRaw == request.totalInputHuman
                            * Pow10(resolvedTokens.sourceToken.decimals)
         effectiveTol == effectiveTolOf(request.tol, totalInputRaw)
     IN  IF validRoutes = <<>> \/ resolvedTokens.threw
         THEN /\ result' = NullResult
              /\ sp' = "done"
              /\ UNCHANGED <<prep, wf>>
         ELSE \E built \in {curvesBuilt} :
              /\ prep' = [routes        |-> built.routes,
                          curves        |-> built.curves,
                          capacities    |-> built.capacities,
                          finalCapacities |->
                            finalCapacitiesOf(
                              dedupedCapacitiesOf(validRoutes, request.routeCapacities),
                              built.capacities),
                          totalInputRaw |-> totalInputRaw,
                          sourceToken   |-> resolvedTokens.sourceToken,
                          targetToken   |-> resolvedTokens.targetToken,
                          gasPerHopInOutputTokensRaw |-> gasPerHopInOutputTokensRaw,
                          effectiveTol  |-> effectiveTol]
              /\ wf' = startWaterfill(built.curves, totalInputRaw,
                         IF request.enableCapacityConstraints
                         THEN finalCapacitiesOf(
                                dedupedCapacitiesOf(validRoutes,
                                                    request.routeCapacities),
                                built.capacities)
                         ELSE <<>>,
                         effectiveTol)
              /\ sp' = "waterfill"
              /\ UNCHANGED result
  /\ UNCHANGED <<request, best>>
  /\ UNCHANGED <<pc, cfg, adjId, heuristicArr, search, routes>>
  /\ UNCHANGED cacheVars

\* one test of `remaining > effectiveTol && iterations < maxIter` and, if it
\* passes, one pass of the loop (lines 520-639)
WaterfillPass ==
  /\ sp = "waterfill"
  /\ IF wf.remaining > prep.effectiveTol /\ wf.iterations < request.maxIterations
     THEN \E r \in {waterfillPass(wf, prep.curves, prep.totalInputRaw,
                                    prep.effectiveTol)} :
              /\ wf' = r.w
              /\ sp' = IF r.running THEN "waterfill" ELSE "allocated"
     ELSE /\ sp' = "allocated"
          /\ UNCHANGED wf
  /\ UNCHANGED <<request, best, prep, result>>
  /\ UNCHANGED <<pc, cfg, adjId, heuristicArr, search, routes>>
  /\ UNCHANGED cacheVars

\* lines 1078-1117: normalizeAllocations, simulateAllocation, the result
OptimizeFinish ==
  /\ sp = "allocated"
  /\ LET normalizedAllocations == normalizeAllocations(wf.allocations,
                                                       prep.totalInputRaw)
         simulated == simulateAllocation(prep.routes, normalizedAllocations,
                                         prep.gasPerHopInOutputTokensRaw,
                                         prep.curves)
     IN  result' = [simulated EXCEPT !.iterations = wf.iterations]
  /\ sp' = "done"
  /\ UNCHANGED <<request, best, prep, wf>>
  /\ UNCHANGED <<pc, cfg, adjId, heuristicArr, search, routes>>
  /\ UNCHANGED cacheVars

NextSplit == SelectBest \/ OptimizeStart \/ WaterfillPass \/ OptimizeFinish

SpecSplit == InitSplit /\ [][NextSplit]_vars

(***************************************************************************)
(* Calls of computeReverseHeuristic in one process: main passes tokenToId  *)
(* (line 1113), runBenchmark does not (test-waterfill-metadata.js line     *)
(* 336); all of them share heuristicCache                                  *)
(***************************************************************************)
CachePoolLists == { <<P0, P2, P3>> }

CacheTargets == {"USDC", "USDT"}

InitCache ==
  /\ pc = "idle"
  /\ cfg = <<>>
  /\ adjId = <<>>
  /\ heuristicCache = <<>>
  /\ heuristicResult = NoHeuristic
  /\ heuristicArr = <<>>
  /\ search = NoSearch
  /\ routes = <<>>
  /\ sp = "off"
  /\ request = <<>>
  /\ best = [route |-> NoRoute, output |-> 0]
  /\ prep = <<>>
  /\ wf = <<>>
  /\ result = NullResult

\* one call computeReverseHeuristic(adj, targetAddr, gasPerHopPenalty[, source,
\* tokenToId]) on the compressed graph of a pool list
CallHeuristic ==
  /\ pc = "idle"
  /\ \E pools \in CachePoolLists, target \in CacheTargets,
        gasPerHopPenalty \in 0 .. GasPenaltyBound, withTokenToId \in BOOLEAN :
       \E call \in {cachedReverseHeuristic(
                      heuristicCache,
                      compressParallelEdges(buildAdjacencyMap(pools)),
                      target, gasPerHopPenalty, withTokenToId)} :
         /\ cfg' = [pools |-> pools, target |-> target,
                    gasPerHopPenalty |-> gasPerHopPenalty,
                    tokenToId |-> withTokenToId]
         /\ heuristicResult' = call.value
         /\ heuristicCache' = call.cache
  /\ UNCHANGED <<pc, adjId, heuristicArr, search, routes>>
  /\ UNCHANGED splitVars

SpecCache == InitCache /\ [][CallHeuristic]_vars

(***************************************************************************)
(* The frontier cap at the end of a round (lines 777-783) on frontiers     *)
(* larger than FRONTIER_CAP.  The heap array is what pushing its states in *)
(* index order leaves: every state has a prio <= its parent's, so no push  *)
(* swaps                                                                   *)
(***************************************************************************)
FrontierOver == 1 .. 6          \* how many states the frontier holds above the cap

PrioPatterns == {"falling", "levels", "bits", "equal"}

RECURSIVE bitCount(_)
bitCount(i) == IF i = 0 THEN 0 ELSE (i % 2) + bitCount(i \div 2)

\* the prio of the state at array position i (from 1): never above the prio
\* at position i \div 2, its parent's
patternPrio(pattern, i) ==
  CASE pattern = "falling" -> 0 - i
    [] pattern = "levels"  -> 0 - ILog(i, 1)
    [] pattern = "bits"    -> 0 - bitCount(i)
    [] pattern = "equal"   -> 0

\* a frontier state as lines 764-772 push it
frontierNode(pattern, i) ==
  [key |-> patternPrio(pattern, i),
   st  |-> [nodeId |-> i % Len(tokenMap), path |-> <<>>, visitedBits |-> {},
            score |-> patternPrio(pattern, i), prio |-> patternPrio(pattern, i),
            hops |-> 1, prevNodeId |-> Undefined]]

frontierOf(pattern, n) == [i \in 1 .. n |-> frontierNode(pattern, i)]

\* the nodes the cap loop hands to releaseNode, in the order removed
RECURSIVE capReleased(_, _)
capReleased(frontier, cap) ==
  IF Len(frontier) > cap
  THEN <<heapPeek(frontier)>> \o capReleased(heapPop(-1, frontier), cap)
  ELSE <<>>

InitFrontierCap ==
  /\ pc = "round"
  /\ cfg \in [ pools            : {<<P0>>},
               source           : {"APT"},
               target           : {"USDC"},
               maxHops          : {MaxHopsBound},
               topK             : {1},
               beamWidth        : {1, 2, 4, 5},
               gasPerHopPenalty : {0} ]
  /\ \E pattern \in PrioPatterns, over \in FrontierOver :
       search = [f \in DOMAIN NoSearch \cup {"nodePool"} |->
                   IF f = "nodePool" THEN <<>>
                   ELSE IF f = "frontier"
                   THEN frontierOf(pattern, FRONTIER_CAP(cfg) + over)
                   ELSE NoSearch[f]]
  /\ adjId = <<>>
  /\ heuristicCache = <<>>
  /\ heuristicResult = NoHeuristic
  /\ heuristicArr = <<>>
  /\ routes = <<>>
  /\ sp = "off"
  /\ request = <<>>
  /\ best = [route |-> NoRoute, output |-> 0]
  /\ prep = <<>>
  /\ wf = <<>>
  /\ result = NullResult

\* while (frontierHeap.size() > FRONTIER_CAP) releaseNode(frontierHeap.pop())
CapFrontier ==
  /\ pc = "round"
  /\ search' = [search EXCEPT
                  !.frontier = capFrontier(@, FRONTIER_CAP(cfg)),
                  !.nodePool = @ \o capReleased(search.frontier, FRONTIER_CAP(cfg))]
  /\ pc' = "capped"
  /\ UNCHANGED <<cfg, adjId, heuristicArr, routes>>
  /\ UNCHANGED splitVars
  /\ UNCHANGED cacheVars

SpecFrontierCap == InitFrontierCap /\ [][CapFrontier]_vars

(***************************************************************************)
(* A second snapshot of the pools in which both reserves of one pool are   *)
(* doubled: the graph is rebuilt and the same request searched again       *)
(***************************************************************************)
\* two parallel APT/USDC pools at prices 4 and 2, and a two-hop detour
X1 == Pool("X1", 0, Tok("APT", 1024, 2), Tok("USDC", 4096, 1))
X2 == Pool("X2", 0, Tok("APT", 2048, 2), Tok("USDC", 4096, 1))
X3 == Pool("X3", 0, Tok("APT", 1024, 2), Tok("USDT", 1024, 1))
X4 == Pool("X4", 0, Tok("USDT", 1024, 1), Tok("USDC", 2048, 1))

RescalePoolLists == { <<X1, X2>>, <<X1, X3, X4>>, <<X1, X2, X3, X4>> }

doubleReserves(pool) ==
  [addr |-> pool.addr, fee |-> pool.fee,
   tokens |-> [i \in 1 .. Len(pool.tokens) |->
                 Tok(pool.tokens[i].addr, 2 * pool.tokens[i].reserve,
                     pool.tokens[i].decimals)]]

rescaledPools(pools, k) ==
  [i \in 1 .. Len(pools) |-> IF i = k THEN doubleReserves(pools[i]) ELSE pools[i]]

\* the pools and hops of the returned paths, in the order returned
pathKeysOf(routeList) == [r \in 1 .. Len(routeList) |-> routeKeyOf(routeList[r].hops)]

InitRescale ==
  /\ pc = "request"
  /\ cfg \in { c \in [ pools            : RescalePoolLists,
                        source           : {"APT", "USDC"},
                        target           : {"APT", "USDC"},
                        maxHops          : 1 .. MaxHopsBound,
                        topK             : 1 .. TopKBound,
                        beamWidth        : BeamWidths,
                        gasPerHopPenalty : 0 .. GasPenaltyBound,
                        rescale          : 1 .. 4,
                        rescaled         : {FALSE},
                        poolsBefore      : {<<>>},
                        pathsBefore      : {<<>>} ] :
                 c.rescale <= Len(c.pools) /\ c.source # c.target }
  /\ adjId = <<>>
  /\ heuristicCache = <<>>
  /\ heuristicResult = NoHeuristic
  /\ heuristicArr = <<>>
  /\ search = NoSearch
  /\ routes = <<>>
  /\ sp = "off"
  /\ request = <<>>
  /\ best = [route |-> NoRoute, output |-> 0]
  /\ prep = <<>>
  /\ wf = <<>>
  /\ result = NullResult

\* the pools are fetched again with one pool's reserves doubled; the paths
\* returned on the first snapshot are kept for comparison
RescalePool ==
  /\ pc = "done"
  /\ ~cfg.rescaled
  /\ cfg' = [cfg EXCEPT !.pools = rescaledPools(cfg.pools, cfg.rescale),
                        !.rescaled = TRUE,
                        !.poolsBefore = cfg.pools,
                        !.pathsBefore = pathKeysOf(routes)]
  /\ pc' = "request"
  /\ adjId' = <<>>
  /\ heuristicArr' = <<>>
  /\ heuristicCache' = <<>>
  /\ heuristicResult' = NoHeuristic
  /\ search' = NoSearch
  /\ routes' = <<>>
  /\ UNCHANGED splitVars

NextRescale == Preprocess \/ AStarStart \/ AStarRound \/ AStarFinish \/ RescalePool

SpecRescale == InitRescale /\ [][NextRescale]_vars

(***************************************************************************)
(* optimizeRouteSplittingWaterfill called on its own with one one-hop      *)
(* route and endpoint hints whose decimals may disagree with the pool's    *)
(* token records (APT has 2 decimals and USDC 1 in every pool)             *)
(***************************************************************************)
SingleHopRouteLists == { <<Direct(P0)>>, <<Direct(P7)>>, <<Direct(Q4)>> }

HintDecimals == {0, 1, 2, 3}

InitMetadata ==
  /\ pc = "off"
  /\ cfg = <<>>
  /\ adjId = <<>>
  /\ heuristicCache = <<>>
  /\ heuristicResult = NoHeuristic
  /\ heuristicArr = <<>>
  /\ search = NoSearch
  /\ routes = <<>>
  /\ sp = "called"
  /\ request \in [ routes          : SingleHopRouteLists,
                   totalInputHuman : TotalInputs,
                   gasPerHopUSD    : GasPerHopUSDs,
                   tol             : Tols,
                   maxIterations   : {MaxIterBound},
                   enableCapacityConstraints : BOOLEAN,
                   routeCapacities : {<<>>},
                   sourceToken     : {[NoToken EXCEPT !.addr = "APT", !.decimals = d]
                                        : d \in HintDecimals},
                   targetToken     : {[NoToken EXCEPT !.addr = "USDC", !.decimals = d]
                                        : d \in HintDecimals} ]
  /\ best = [route |-> NoRoute, output |-> 0]
  /\ prep = <<>>
  /\ wf = <<>>
  /\ result = NullResult

NextMetadata == OptimizeStart \/ WaterfillPass \/ OptimizeFinish

SpecMetadata == InitMetadata /\ [][NextMetadata]_vars

(***************************************************************************)
(* optimizeRouteSplittingHillClimb: all input on the first route, then     *)
(* rounds that move deltaRaw along the single move of largest gain         *)
(***************************************************************************)
DeltaPctDen == 1000              \* deltaPct = 0.001
DefaultMaxActiveRoutes == 10

computeTotalOutputRaw(routeList, allocationsRaw, gasPerHopRaw) ==
  SeqSum([i \in 1 .. Len(routeList) |->
            IF allocationsRaw[i] <= 0 THEN 0
            ELSE Max(0, simulateRoute(routeList[i], allocationsRaw[i])
                          - Len(routeList[i]) * gasPerHopRaw)])

\* recomputeEntries: the routes holding a positive amount, largest amount
\* first, routes of equal amount in index order (the sort is stable)
recomputeEntries(allocationsRaw) ==
  LET active == {i \in 1 .. Len(allocationsRaw) : allocationsRaw[i] > 0}
  IN  IF active = {} THEN <<>>
      ELSE CHOOSE e \in [1 .. Cardinality(active) -> active] :
             \A j, k \in 1 .. Cardinality(active) :
               j < k => \/ allocationsRaw[e[j]] > allocationsRaw[e[k]]
                        \/ /\ allocationsRaw[e[j]] = allocationsRaw[e[k]]
                           /\ e[j] < e[k]

moveDelta(allocationsRaw, fromRouteIdx, toRouteIdx, delta) ==
  [i \in 1 .. Len(allocationsRaw) |->
     IF i = fromRouteIdx THEN allocationsRaw[i] - delta
     ELSE IF i = toRouteIdx THEN allocationsRaw[i] + delta
     ELSE allocationsRaw[i]]

\* the double loop of a round: bestMove is the first move, in the order of
\* allocationEntries and then of toRouteIdx, whose gain is the largest;
\* position 0 stands for null
bestMoveOf(h, routeList, gasPerHopRaw, deltaRaw) ==
  CHOOSE bestMove \in
    { IF gaining = {} THEN [pos |-> 0, toRouteIdx |-> 0, gain |-> 0]
      ELSE CHOOSE c \in gaining :
             \A d \in gaining :
               \/ c.gain > d.gain
               \/ /\ c.gain = d.gain
                  /\ \/ c.pos < d.pos
                     \/ (c.pos = d.pos /\ c.toRouteIdx <= d.toRouteIdx)
      : gaining \in
          { { move \in
                { [pos |-> m[1], toRouteIdx |-> m[2],
                   gain |-> computeTotalOutputRaw(routeList,
                              moveDelta(h.allocations, h.entries[m[1]], m[2],
                                        deltaRaw),
                              gasPerHopRaw) - h.currentOutput]
                  : m \in {mv \in (1 .. Len(h.entries)) \X (1 .. Len(routeList)) :
                             /\ h.allocations[h.entries[mv[1]]] >= deltaRaw
                             /\ mv[2] # h.entries[mv[1]]} }
                : move.gain > 0 } } } : TRUE

\* lines 1650-1659: more active routes than maxActiveRoutes, the smallest
\* allocation is folded into the largest
foldSmallest(allocationsRaw) ==
  LET entries  == recomputeEntries(allocationsRaw)
      smallest == entries[Len(entries)]
      largest  == entries[1]
  IN  [i \in 1 .. Len(allocationsRaw) |->
         IF i = largest THEN allocationsRaw[largest] + allocationsRaw[smallest]
         ELSE IF i = smallest THEN 0
         ELSE allocationsRaw[i]]

\* one pass of the while loop (lines 1620-1661)
hillClimbRound(h, routeList, gasPerHopRaw, deltaRaw, maxActiveRoutes) ==
  CHOOSE round \in
    { IF bestMove.pos = 0
      THEN [h EXCEPT !.iterations = @ + 1, !.improved = FALSE]
      ELSE CHOOSE next \in
             { LET folds == Len(recomputeEntries(moved)) > maxActiveRoutes
               IN  CHOOSE kept \in
                     { [allocations   |-> after,
                        entries       |-> recomputeEntries(after),
                        iterations    |-> h.iterations + 1,
                        improved      |-> TRUE,
                        currentOutput |->
                          IF folds
                          THEN computeTotalOutputRaw(routeList, after, gasPerHopRaw)
                          ELSE h.currentOutput + bestMove.gain]
                       : after \in {IF folds THEN foldSmallest(moved) ELSE moved} }
                     : TRUE
               : moved \in {moveDelta(h.allocations, h.entries[bestMove.pos],
                                      bestMove.toRouteIdx, deltaRaw)} } : TRUE
      : bestMove \in {bestMoveOf(h, routeList, gasPerHopRaw, deltaRaw)} } : TRUE

InitHillClimb ==
  /\ pc = "off"
  /\ cfg = <<>>
  /\ adjId = <<>>
  /\ heuristicCache = <<>>
  /\ heuristicResult = NoHeuristic
  /\ heuristicArr = <<>>
  /\ search = NoSearch
  /\ routes = <<>>
  /\ sp = "hillclimb"
  /\ request \in [ routes          : SplitRouteLists,
                   totalInputHuman : TotalInputs,
                   gasPerHopUSD    : GasPerHopUSDs,
                   maxIterations   : {2, MaxIterBound},
                   maxActiveRoutes : {1, DefaultMaxActiveRoutes},
                   routeCapacities : {<<>>},
                   sourceToken     : {[NoToken EXCEPT !.addr = "APT", !.decimals = 2]},
                   targetToken     : {[NoToken EXCEPT !.addr = "USDC", !.decimals = 1]} ]
         \cup
                 [ routes          : {ThinDeepRoutes},
                   totalInputHuman : ThinDeepInputs,
                   gasPerHopUSD    : {0},
                   maxIterations   : {2, MaxIterBound},
                   maxActiveRoutes : {DefaultMaxActiveRoutes},
                   routeCapacities : {ThinDeepCapacities},
                   sourceToken     : {[NoToken EXCEPT !.addr = "APT", !.decimals = 2]},
                   targetToken     : {[NoToken EXCEPT !.addr = "USDC", !.decimals = 1]} ]
  /\ best = [route |-> NoRoute, output |-> 0]
  /\ prep = <<>>
  /\ wf = <<>>
  /\ result = NullResult

\* optimizeRouteSplittingHillClimb up to its while loop (lines 1496-1618)
HillClimbStart ==
  /\ sp = "hillclimb"
  /\ LET validRoutes == SelectSeq(request.routes,
                                  LAMBDA route : validateRoute(route, DefaultMaxHops))
         dedupedRoutes == deduplicateRoutes(validRoutes)
         resolvedTokens == resolveEndpointMetadata(dedupedRoutes, request.sourceToken,
                                                   request.targetToken)
         gasPerHopInOutputTokensRaw ==
           request.gasPerHopUSD * Pow10(resolvedTokens.targetToken.decimals)
         curvesBuilt == buildResponseCurves(dedupedRoutes, request.totalInputHuman,
                                            resolvedTokens.sourceToken,
                                            gasPerHopInOutputTokensRaw)
         totalInputRaw == request.totalInputHuman
                            * Pow10(resolvedTokens.sourceToken.decimals)
         allocationsRaw == [i \in 1 .. Len(dedupedRoutes) |->
                              IF i = 1 THEN totalInputRaw ELSE 0]
     IN  IF validRoutes = <<>> \/ resolvedTokens.threw
         THEN /\ result' = NullResult
              /\ sp' = "done"
              /\ UNCHANGED <<prep, wf>>
         ELSE \E built \in {curvesBuilt} :
              /\ prep' = [routes        |-> dedupedRoutes,
                          curves        |-> built.curves,
                          capacities    |-> built.capacities,
                          externalCapacities |->
                            dedupedCapacitiesOf(validRoutes, request.routeCapacities),
                          totalInputRaw |-> totalInputRaw,
                          deltaRaw      |-> Max(1, RoundDiv(totalInputRaw, DeltaPctDen)),
                          gasPerHopInOutputTokensRaw |-> gasPerHopInOutputTokensRaw]
              /\ wf' = [allocations   |-> allocationsRaw,
                        entries       |-> <<1>>,
                        iterations    |-> 0,
                        improved      |-> TRUE,
                        currentOutput |->
                          computeTotalOutputRaw(dedupedRoutes, allocationsRaw,
                                                gasPerHopInOutputTokensRaw)]
              /\ sp' = "climbing"
              /\ UNCHANGED result
  /\ UNCHANGED <<request, best>>
  /\ UNCHANGED <<pc, cfg, adjId, heuristicArr, search, routes>>
  /\ UNCHANGED cacheVars

\* one test of the while condition and, if it passes, one round
HillClimbRound ==
  /\ sp = "climbing"
  /\ IF /\ wf.improved
        /\ wf.iterations < request.maxIterations
        /\ Len(wf.entries) <= request.maxActiveRoutes
     THEN \E h \in {hillClimbRound(wf, prep.routes, prep.gasPerHopInOutputTokensRaw,
                                    prep.deltaRaw, request.maxActiveRoutes)} :
              /\ wf' = h
              /\ sp' = "climbing"
     ELSE /\ sp' = "climbed"
          /\ UNCHANGED wf
  /\ UNCHANGED <<request, best, prep, result>>
  /\ UNCHANGED <<pc, cfg, adjId, heuristicArr, search, routes>>
  /\ UNCHANGED cacheVars

\* lines 1665-1680: normalizeAllocations with minPct 0.001, simulateAllocation
HillClimbFinish ==
  /\ sp = "climbed"
  /\ LET normalizedAllocations == normalizeAllocations(wf.allocations,
                                                       prep.totalInputRaw)
         simulated == simulateAllocation(prep.routes, normalizedAllocations,
                                         prep.gasPerHopInOutputTokensRaw,
                                         prep.curves)
     IN  result' = [simulated EXCEPT !.iterations = wf.iterations]
  /\ sp' = "done"
  /\ UNCHANGED <<request, best, prep, wf>>
  /\ UNCHANGED <<pc, cfg, adjId, heuristicArr, search, routes>>
  /\ UNCHANGED cacheVars

NextHillClimb == HillClimbStart \/ HillClimbRound \/ HillClimbFinish

SpecHillClimb == InitHillClimb /\ [][NextHillClimb]_vars

(***************************************************************************)
(* normalizeAllocations on its own: allocation vectors of up to MaxPaths   *)
(* paths whose sum is positive and at most totalInputRaw                   *)
(***************************************************************************)
MaxPaths == 3

\* amounts around the dust threshold totalInputRaw / 1000, around the total
\* and in between
AmountsFor(totalInputRaw) ==
  {0, 1, totalInputRaw \div MinPctDen - 1, totalInputRaw \div MinPctDen,
   totalInputRaw \div 4, totalInputRaw \div 2, totalInputRaw \div 2 - 1,
   totalInputRaw - 4, totalInputRaw - 1, totalInputRaw}

VectorsFor(totalInputRaw) ==
  { v \in UNION { [1 .. n -> AmountsFor(totalInputRaw)] : n \in 1 .. MaxPaths } :
      SeqSum(v) > 0 /\ SeqSum(v) <= totalInputRaw }

InitNormalize ==
  /\ pc = "off"
  /\ cfg = <<>>
  /\ adjId = <<>>
  /\ heuristicCache = <<>>
  /\ heuristicResult = NoHeuristic
  /\ heuristicArr = <<>>
  /\ search = NoSearch
  /\ routes = <<>>
  /\ sp = "vector"
  /\ request = <<>>
  /\ best = [route |-> NoRoute, output |-> 0]
  /\ \E totalInputRaw \in {2000, 4000} :
       \E allocations \in VectorsFor(totalInputRaw) :
         /\ prep = [totalInputRaw |-> totalInputRaw]
         /\ wf = [allocations |-> allocations]
  /\ result = <<>>

\* one call of normalizeAllocations(allocations, totalInputRaw)
Normalize ==
  /\ sp = "vector"
  /\ result' = normalizeAllocations(wf.allocations, prep.totalInputRaw)
  /\ sp' = "normalized"
  /\ UNCHANGED <<request, best, prep, wf>>
  /\ UNCHANGED <<pc, cfg, adjId, heuristicArr, search, routes>>
  /\ UNCHANGED cacheVars

SpecNormalize == InitNormalize /\ [][Normalize]_vars

(***************************************************************************)
(* Properties of findTopKRoutesAStar                                       *)
(***************************************************************************)
Returned == pc = "done" /\ cfg.source # cfg.target

\* the token addresses a path visits, in order
tokensOf(hops) == <<hops[1].fromAddr>> \o [i \in 1 .. Len(hops) |-> hops[i].toAddr]

\* logSpotPrice of the adjacency edge a hop was taken over
hopLogSpotPrice(hop) ==
  LET edges == adjId[hop.fromId]
      k == CHOOSE k \in 1 .. Len(edges) :
             edges[k].poolId = hop.poolId /\ edges[k].toId = hop.toId
  IN  edges[k].logSpotPrice

\* sum of logSpotPrice over the hops minus hops times gasPerHopPenalty
terminalScore(hops) ==
  SeqSum([i \in 1 .. Len(hops) |-> hopLogSpotPrice(hops[i])])
    - Len(hops) * cfg.gasPerHopPenalty

poolSequence(hops) == [i \in 1 .. Len(hops) |-> hops[i].pool]

\* C1: every returned path starts at the source, ends at the target, chains
\* hop to hop, has at most maxHops hops and visits no token address twice.
C1_PathValidity ==
  Returned =>
    \A r \in 1 .. Len(routes) :
      LET hops == routes[r].hops
          toks == tokensOf(hops)
      IN  /\ Len(hops) >= 1
          /\ hops[1].fromAddr = cfg.source
          /\ hops[Len(hops)].toAddr = cfg.target
          /\ \A i \in 1 .. Len(hops) - 1 : hops[i].toAddr = hops[i + 1].fromAddr
          /\ Len(hops) <= cfg.maxHops
          /\ \A i, j \in 1 .. Len(toks) : i # j => toks[i] # toks[j]

\* a call that returned a direct path and a path of maxHops >= 3 hops
C1_Witness ==
  /\ Returned
  /\ cfg.maxHops >= 3
  /\ \E r \in 1 .. Len(routes) : Len(routes[r].hops) = cfg.maxHops
  /\ \E r \in 1 .. Len(routes) : Len(routes[r].hops) = 1

\* C2: no two returned paths of one call have the same ordered sequence of
\* pools, the direct path seeded before the main loop included.
C2_PathUniqueness ==
  Returned =>
    \A i, j \in 1 .. Len(routes) :
      i # j => poolSequence(routes[i].hops) # poolSequence(routes[j].hops)

\* a call that seeded the direct path, met it again in the main loop, and
\* returned it next to other paths
C2_Witness ==
  /\ Returned
  /\ Len(routes) >= 2
  /\ \E r \in 1 .. Len(routes) :
       /\ routes[r].seq = 0
       /\ Len(routes[r].hops) = 1
       /\ routes[r].hops[1].dxCapRaw = Undefined
  /\ search.nodesExplored >= 1
  /\ \E k \in 1 .. Len(adjId[tokenToId(cfg.source)]) :
       adjId[tokenToId(cfg.source)][k].toId = tokenToId(cfg.target)

\* C3: at most K paths are returned and their terminal scores are
\* non-increasing along the list.
C3_TopKOrdered ==
  Returned =>
    /\ Len(routes) <= cfg.topK
    /\ \A i \in 1 .. Len(routes) - 1 :
         terminalScore(routes[i].hops) >= terminalScore(routes[i + 1].hops)

\* a call that filled all K >= 2 slots with paths of different scores
C3_Witness ==
  /\ Returned
  /\ cfg.topK >= 2
  /\ Len(routes) = cfg.topK
  /\ terminalScore(routes[1].hops) > terminalScore(routes[Len(routes)].hops)
  /\ search.found > cfg.topK

\* C6: every returned path scores at least as much as every completed,
\* non-duplicate path discarded under the K-th-best rule.
C6_KBestDominance ==
  Returned =>
    \A r \in 1 .. Len(routes) :
      \A d \in search.rejected \cup search.evicted :
        terminalScore(routes[r].hops) >= d

\* a call that both rejected a completed path and evicted a held one
C6_Witness ==
  /\ Returned
  /\ Len(routes) >= 1
  /\ search.rejected # {}
  /\ search.evicted # {}

\* C7: for every returned path and every token on it, the score accumulated on
\* reaching the token plus the heuristic of the token is at least the terminal
\* score of the path.
C7_HeuristicAdmissible ==
  Returned =>
    \A r \in 1 .. Len(routes) :
      LET hops == routes[r].hops
          gT   == hops[Len(hops)].g
      IN  \A i \in 1 .. Len(hops) :
            /\ hops[i].gFrom + heuristicArr[hops[i].fromId] >= gT
            /\ hops[i].g + heuristicArr[hops[i].toId] >= gT

hasDirectEdge ==
  \E k \in 1 .. Len(adjId[tokenToId(cfg.source)]) :
    adjId[tokenToId(cfg.source)][k].toId = tokenToId(cfg.target)

\* the paths the main loop completed and had not seen before
completedInLoop == search.found - (IF hasDirectEdge THEN 1 ELSE 0)

\* C11: findTopKRoutesAStar (K >= 1) returns an empty list if and only if
\* source equals target, or the search completed no path and the source has no
\* direct edge to the target; with source # target and a direct edge the
\* result is non-empty.
C11_EmptyIffNoPath ==
  pc = "done" =>
    /\ (routes = <<>>) <=>
         (cfg.source = cfg.target \/ (completedInLoop = 0 /\ ~hasDirectEdge))
    /\ (cfg.source # cfg.target /\ hasDirectEdge) => routes # <<>>

\* a search that ran, completed nothing and returned the empty list
C11_Witness ==
  /\ pc = "done" /\ cfg.source # cfg.target
  /\ search.nodesExplored > 0 /\ ~hasDirectEdge /\ routes = <<>>

invalidRequest ==
  \/ cfg.source \notin TokenAddrs
  \/ cfg.target \notin TokenAddrs
  \/ cfg.maxHops = 0

\* C13: a search request whose source or target address is not in the token
\* dictionary, or whose maxHops is 0, is rejected: no search work is done (no
\* state is expanded, no path is completed) and no paths are returned for it.
C13_InvalidRejected ==
  invalidRequest =>
    /\ search.nodesExplored = 0 /\ search.found = 0
    /\ routes = <<>>

\* dxCapRaw of the adjacency edge a hop was taken over
hopEdgeCap(hop) ==
  LET edges == adjId[hop.fromId]
      k == CHOOSE k \in 1 .. Len(edges) :
             edges[k].poolId = hop.poolId /\ edges[k].toId = hop.toId
  IN  edges[k].dxCapRaw

\* C14: for every returned path capRaw equals the minimum dxCapRaw of the
\* graph edges along the path; every graph edge carries a dxCapRaw, so the
\* sentinel is never due.
C14_CapRawIsMinEdgeCap ==
  Returned =>
    \A r \in 1 .. Len(routes) :
      LET hops == routes[r].hops
          caps == {hopEdgeCap(hops[h]) : h \in 1 .. Len(hops)}
      IN  /\ routes[r].capRaw # Inf
          /\ routes[r].capRaw = CHOOSE m \in caps : \A x \in caps : m <= x

\* the edges from -> to of an adjacency map, best score first
parallelIn(adjMap, from, to) ==
  SortByScore(SelectSeq(adjMap[from], LAMBDA e : e.to = to))

\* the edges from -> to that compression left
parallelAfter(from, to) ==
  SelectSeq(adjId[tokenToId(from)], LAMBDA e : e.toAddr = to)

withinPriceDelta(first, second) ==
  Abs(second.spotPrice - first.spotPrice) * BpsScale
    <= PriceDeltaBpsMax * first.spotPrice

\* C15: after compressParallelEdges at most two edges remain for every
\* ordered token pair: the highest-score edge always, and the second-highest
\* if and only if its spot price is within 50 basis points of the best edge's;
\* every other parallel edge is removed.
C15_ParallelEdgeCompression ==
  pc = "ready" =>
    \A adjMap \in {buildAdjacencyMap(cfg.pools)} :
      \A from \in TokenAddrs, to \in TokenAddrs :
        \A before \in {parallelIn(adjMap, from, to)} :
          \A after \in {parallelAfter(from, to)} :
            /\ Len(after) <= 2
            /\ Len(after) >= 1 <=> Len(before) >= 1
            /\ Len(after) >= 1 => after[1].pool = before[1].pool
            /\ Len(after) = 2 <=>
                 (Len(before) >= 2 /\ withinPriceDelta(before[1], before[2]))
            /\ Len(after) = 2 => after[2].pool = before[2].pool

\* a pair with three parallel edges of which two were kept, and a pair with
\* parallel edges of which only the best was kept
C15_Witness ==
  /\ pc = "ready"
  /\ \E adjMap \in {buildAdjacencyMap(cfg.pools)} :
       /\ \E from \in TokenAddrs, to \in TokenAddrs :
            /\ Len(parallelIn(adjMap, from, to)) >= 3
            /\ Len(parallelAfter(from, to)) = 2
       /\ \E from \in TokenAddrs, to \in TokenAddrs :
            /\ Len(parallelIn(adjMap, from, to)) >= 2
            /\ Len(parallelAfter(from, to)) = 1

\* the cost the heuristic gives an edge
edgeCost(edge) == Max(0, -edge.logSpotPrice + cfg.gasPerHopPenalty)

\* the least cost of a directed path of at most k edges from each token to the
\* target, Inf where there is none
RECURSIVE minCostWithin(_, _)
minCostWithin(adjMap, k) ==
  IF k = 0 THEN [a \in TokenAddrs |-> IF a = cfg.target THEN 0 ELSE Inf]
  ELSE \* bind the previous round once
       CHOOSE f \in
         { [a \in TokenAddrs |->
              LET via == { edgeCost(adjMap[a][i]) + prev[adjMap[a][i].to] :
                             i \in {j \in 1 .. Len(adjMap[a]) :
                                      prev[adjMap[a][j].to] # Inf} }
                  all == via \cup {prev[a]}
              IN  CHOOSE m \in all : \A x \in all : m <= x]
           : prev \in {minCostWithin(adjMap, k - 1)} } : TRUE

\* C16: on a cache miss computeReverseHeuristic gives every token from which
\* the target is reachable the minimum, over all directed paths from the token
\* to the target, of the sum of the edge costs
\* max(0, -logSpotPrice + gasPerHopPenalty); every value is >= 0 and the
\* target's own value is 0.
C16_HeuristicIsShortestPath ==
  pc = "ready" =>
    \A adjMap \in {compressParallelEdges(buildAdjacencyMap(cfg.pools))} :
      \A dist \in {computeReverseHeuristic(adjMap, cfg.target,
                                           cfg.gasPerHopPenalty)} :
        \A least \in {minCostWithin(adjMap, Len(tokenMap) - 1)} :
          /\ \A a \in TokenAddrs :
                least[a] # Inf =>
                  /\ a \in DOMAIN dist
                  /\ dist[a] = least[a]
                  /\ heuristicArr[tokenToId(a)] = least[a]
          /\ \A a \in DOMAIN dist : dist[a] >= 0
          /\ dist[cfg.target] = 0

\* a token whose distance is positive and smaller over two or more edges than
\* over any single edge to the target
C16_Witness ==
  /\ pc = "ready"
  /\ \E adjMap \in {compressParallelEdges(buildAdjacencyMap(cfg.pools))} :
       \E a \in TokenAddrs \ {cfg.target} :
         /\ heuristicArr[tokenToId(a)] > 0
         /\ minCostWithin(adjMap, 1)[a] # Inf
         /\ heuristicArr[tokenToId(a)] < minCostWithin(adjMap, 1)[a]
         /\ heuristicArr[tokenToId(a)] = minCostWithin(adjMap, Len(tokenMap) - 1)[a]

\* the prices a path crosses, hop by hop: two paths with the same sequence
\* have the same terminal score to the last bit
priceSequence(hops) == [i \in 1 .. Len(hops) |-> hopLogSpotPrice(hops[i])]

\* C20: among the returned paths of equal terminal score (here: of equal
\* score over the same sequence of prices), a path completed earlier in the
\* search comes before a path completed later
C20_TiesInDiscoveryOrder ==
  Returned =>
    \A r1, r2 \in 1 .. Len(routes) :
      (/\ r1 < r2
       /\ routes[r1].score = routes[r2].score
       /\ priceSequence(routes[r1].hops) = priceSequence(routes[r2].hops)) =>
        routes[r1].seq < routes[r2].seq

(***************************************************************************)
(* Properties of the route evaluation and of the split                     *)
(***************************************************************************)
SplitReturned == sp = "done" /\ ~result.isNull

resultInputs == [k \in 1 .. Len(result.routes) |-> result.routes[k].inputRaw]

\* C4: whenever optimizeRouteSplittingWaterfill returns a result for a total
\* input T > 0, every per-path input is >= 0 and the per-path inputs sum to T
\* within max(1, T * 1e-9) raw units (the per-path inputs of the model are
\* rounded to raw units, half a unit each at most, which the bound allows for)
C4_AllocationBalance ==
  (SplitReturned /\ prep.totalInputRaw > 0) =>
    /\ \A k \in 1 .. Len(result.routes) : result.routes[k].inputRaw >= 0
    /\ Abs(SeqSum(resultInputs) - prep.totalInputRaw)
         <= Max(1, prep.totalInputRaw \div 1000000000) + Len(prep.routes)

\* C5: the total output of the split is at least the net output of the best
\* single route on the full amount, as selectBestRoute reported it for the same
\* routes, amount and gasPerHopUSD, minus a small tolerance (here one raw unit
\* per route and the gas the split charges on every hop of every route)
C5_NoSplittingDominance ==
  SplitReturned =>
    result.totalOutputRaw
      + Len(prep.routes) * (1 + DefaultMaxHops * prep.gasPerHopInOutputTokensRaw)
      >= best.output

strictlyInterior(i) ==
  0 < wf.allocations[i] /\ wf.allocations[i] < wf.effectiveCapacities[i]

marginalAt(i) == interpolateMarginal(prep.curves[i], wf.allocations[i])

\* what one raw unit of input changes the marginal rate of path i by: the
\* resolution the raw grid gives the rate at its allocation
gridStep(i) ==
  Max(Abs(interpolateMarginal(prep.curves[i], wf.allocations[i] - 1) - marginalAt(i)),
      Abs(interpolateMarginal(prep.curves[i], wf.allocations[i] + 1) - marginalAt(i)))

\* C8: in the allocation the priority-queue water-fill produced, any two
\* strictly interior paths (0 < x_i < cap_i, 0 < x_j < cap_j) have marginal
\* rates, read from their response curves at x_i and x_j, that differ by at
\* most the implementation tolerance (effectiveTol, plus the grid resolution)
C8_EquilibriumKKT ==
  sp = "allocated" =>
    \A i, j \in 1 .. Len(prep.curves) :
      (strictlyInterior(i) /\ strictlyInterior(j)) =>
        Abs(marginalAt(i) - marginalAt(j))
          <= prep.effectiveTol * MScale + gridStep(i) + gridStep(j)

CurvesBuilt == sp \in {"waterfill", "allocated"} \/ SplitReturned

\* C9: every response curve has outputRaw non-decreasing over its recorded
\* samples; a sample whose net output fell below the previous sample's is
\* recorded with the previous output, and no later sample is recorded
C9_CurveMonotone ==
  CurvesBuilt =>
    \A i \in 1 .. Len(prep.curves) :
      \A k \in 2 .. Len(prep.curves[i]) :
        LET curve == prep.curves[i]
        IN  /\ curve[k].outputRaw >= curve[k - 1].outputRaw
            /\ curve[k].simulated < curve[k - 1].outputRaw =>
                 /\ curve[k].outputRaw = curve[k - 1].outputRaw
                 /\ k = Len(curve)

\* a curve that was cut short at a sample whose net output had fallen
C9_Witness ==
  /\ CurvesBuilt
  /\ \E i \in 1 .. Len(prep.curves) :
       LET curve == prep.curves[i]
       IN  /\ 1 < Len(curve) /\ Len(curve) < Len(percentages)
           /\ curve[Len(curve)].simulated < curve[Len(curve) - 1].outputRaw
           /\ curve[Len(curve)].outputRaw = curve[Len(curve) - 1].outputRaw

netOutputOf(i) ==
  Max(0, simulateRoute(request.routes[i],
                       request.totalInputHuman * Pow10(request.sourceToken.decimals))
           - Len(request.routes[i]) * request.gasPerHopUSD)

\* C10: for a non-empty list of paths selectBestRoute returns the path whose
\* net output max(0, simulateRoute(path, amount) - hops * gasPerHop) is
\* maximal, together with that net output; of several paths with the maximal
\* net output it returns the earliest
C10_BestRouteIsMaximal ==
  (sp \in {"selected", "threw"} /\ request.routes # <<>>) =>
    /\ best.route \in 1 .. Len(request.routes)
    /\ \A j \in 1 .. Len(request.routes) : netOutputOf(best.route) >= netOutputOf(j)
    /\ best.output = netOutputOf(best.route)
    /\ \A j \in 1 .. best.route - 1 : netOutputOf(j) < netOutputOf(best.route)

\* the input the returned split gives path idx of the request, 0 for a path
\* the result leaves out
finalInputOf(idx) ==
  LET given == SelectSeq(result.routes, LAMBDA r : r.routeIdx = idx)
  IN  IF given = <<>> THEN 0 ELSE given[1].inputRaw

\* Math.max(1, totalInputRaw * 1e-9)
toleranceRawOf(totalInputRaw) == Max(1, totalInputRaw \div 1000000000)

ThinScenario ==
  /\ SplitReturned
  /\ request.routes = ThinDeepRoutes
  /\ request.routeCapacities = ThinDeepCapacities
  /\ request.enableCapacityConstraints

\* C17: with one thin path capped at one ten-thousandth of the request (1e6
\* raw of 1e10) and two deep alternatives, the final allocation of the split
\* to the thin path equals its cap within tolerance, and the two deep paths
\* share the remainder at equal marginal rates (within the resolution of the
\* raw grid)
C17_ThinPathFilledToCap ==
  ThinScenario =>
    /\ Abs(finalInputOf(1) - ThinDeepCapacities[1])
         <= toleranceRawOf(prep.totalInputRaw)
    /\ Abs(finalInputOf(1) + finalInputOf(2) + finalInputOf(3) - prep.totalInputRaw)
         <= toleranceRawOf(prep.totalInputRaw)
    /\ Abs(interpolateMarginal(prep.curves[2], finalInputOf(2))
             - interpolateMarginal(prep.curves[3], finalInputOf(3)))
         <= prep.effectiveTol * MScale + gridStep(2) + gridStep(3)

\* the paths whose response curve starts with a positive marginal rate
positiveInitialMarginal ==
  {i \in 1 .. Len(prep.curves) : interpolateMarginal(prep.curves[i], 0) > 0}

\* C18: when exactly one path with positive initial marginal reaches
\* allocateWaterfillPQ, the allocator gives it min(T, cap_1), and after
\* normalizeAllocations the final input of that path is T (within the
\* tolerance max(1, T * 1e-9))
C18_SinglePathDegenerate ==
  (SplitReturned /\ Cardinality(positiveInitialMarginal) = 1) =>
    \A i \in positiveInitialMarginal :
      /\ wf.allocations[i] = Min(prep.totalInputRaw, wf.effectiveCapacities[i])
      /\ Abs(finalInputOf(i) - prep.totalInputRaw)
           <= toleranceRawOf(prep.totalInputRaw)

\* the indices of the dust amounts of a vector: nonzero and below minPct * T
dustOf(allocations, totalInputRaw) ==
  {i \in 1 .. Len(allocations) :
     allocations[i] > 0 /\ allocations[i] * MinPctDen < totalInputRaw}

\* C19: normalizeAllocations, applied to allocations whose sum is positive and
\* at most T, returns a vector in which no path holds a nonzero amount below
\* minPct * T (T / 1000): every dust amount is set to zero and the total dust is
\* added to a largest remaining allocation before the vector is rescaled to T;
\* the input is returned unchanged if and only if its sum matches T within
\* max(1, T * 1e-9) and it contains no dust
C19_NormalizeDropsDust ==
  sp = "normalized" =>
    LET a    == wf.allocations
        T    == prep.totalInputRaw
        n    == Len(a)
        dust == dustOf(a, T)
        kept == [i \in 1 .. n |-> IF i \in dust THEN 0 ELSE a[i]]
        dustTotal == SeqSum([i \in 1 .. n |-> IF i \in dust THEN a[i] ELSE 0])
        largest   == {i \in 1 .. n : \A j \in 1 .. n : kept[i] >= kept[j]}
    IN  /\ Len(result) = n
        /\ dustOf(result, T) = {}
        /\ result = a <=>
             (Abs(SeqSum(a) - T) <= toleranceRawOf(T) /\ dust = {})
        /\ result # a =>
             \E best1 \in largest :
               \A i \in 1 .. n :
                 result[i] = RoundDiv((kept[i] + IF i = best1 THEN dustTotal ELSE 0) * T,
                                      SeqSum(a))
        /\ Abs(SeqSum(result) - T) <= n

\* a vector with a dust amount next to larger ones, short of T by more than
\* the tolerance, that came back without the dust and summing to T
C19_Witness ==
  /\ sp = "normalized"
  /\ dustOf(wf.allocations, prep.totalInputRaw) # {}
  /\ \E i \in 1 .. Len(wf.allocations) :
       wf.allocations[i] * MinPctDen >= prep.totalInputRaw
  /\ SeqSum(wf.allocations) < prep.totalInputRaw - toleranceRawOf(prep.totalInputRaw)
  /\ SeqSum(result) = prep.totalInputRaw
  /\ \E i \in dustOf(wf.allocations, prep.totalInputRaw) : result[i] = 0

\* The input step that ends at sample k of a response curve.
deltaInAt(curve, k) ==
  IF k = 1 THEN curve[1].inputRaw ELSE curve[k].inputRaw - curve[k - 1].inputRaw

\* The largest error the MantBits rounding of the outputs can put into the
\* marginal rate recorded at sample k.
roundoffAt(curve, k) ==
  RoundDiv((curve[k].outputRaw \div Pow2(MantBits - 1) + 2) * MScale, deltaInAt(curve, k))

\* C21: on every response curve built from constant-product pools, with any
\* per-hop gas charge >= 0, the recorded marginal rates are non-increasing
\* along the samples (up to the rounding of the arithmetic).
C21_MarginalsNonIncreasing ==
  CurvesBuilt =>
    \A i \in 1 .. Len(prep.curves) :
      \A k \in 2 .. Len(prep.curves[i]) :
        prep.curves[i][k].marginalRaw
          <= prep.curves[i][k - 1].marginalRaw
               + roundoffAt(prep.curves[i], k) + roundoffAt(prep.curves[i], k - 1)

\* the decimals the token record of a hop's own pool gives an endpoint
poolDecimalsOf(hop, tokenAddr) == FindToken(hop.pool, tokenAddr).decimals

\* what the caller of the metadata test expects in raw target units
expectedOutputRawOf(route, totalInputHuman, gasPerHopUSD) ==
  Max(0, simulateRoute(route, totalInputHuman * Pow10(poolDecimalsOf(route[1], route[1].fromAddr))) - gasPerHopUSD * Pow10(poolDecimalsOf(route[1], route[1].toAddr)))

\* C22: with a single valid one-hop route, whatever decimals the hints carry,
\* the result has exactly one route whose input in human units (inputRaw over
\* 10^decimals of the resolved source) is the requested amount, and the total
\* output in human units is max(0, simulateRoute(route, amount * 10^pool source
\* decimals) - gasPerHopUSD * 10^pool target decimals) / 10^pool target decimals
C22_DecimalsFromRoutes ==
  (sp = "done" /\ Len(request.routes) = 1 /\ Len(request.routes[1]) = 1) =>
    LET route == request.routes[1]
    IN  /\ ~result.isNull
        /\ Len(result.routes) = 1
        /\ result.routes[1].inputRaw
             = request.totalInputHuman * Pow10(prep.sourceToken.decimals)
        /\ result.totalOutputRaw * Pow10(poolDecimalsOf(route[1], route[1].toAddr))
             = expectedOutputRawOf(route, request.totalInputHuman, request.gasPerHopUSD)
                 * Pow10(prep.targetToken.decimals)

\* the capacity the caller gave a path of the hill-climb, Inf when it gave none
hillClimbCapOf(i) ==
  IF prep.externalCapacities = <<>> THEN Inf ELSE prep.externalCapacities[i]

feasibleSplit(x) ==
  /\ SeqSum(x) = prep.totalInputRaw
  /\ \A i \in 1 .. Len(x) : 0 <= x[i] /\ x[i] <= hillClimbCapOf(i)

\* C23: the hill-climb starts with all of T on path 0 and, after every round
\* and on return, its allocations sum to T with 0 <= x_i <= cap_i for every
\* path (cap_i the capacity the caller supplied for the path)
C23_HillClimbFeasible ==
  /\ (sp = "climbing" /\ wf.iterations = 0) => wf.allocations[1] = prep.totalInputRaw
  /\ sp \in {"climbing", "climbed"} => feasibleSplit(wf.allocations)
  /\ (sp = "done" /\ ~result.isNull) =>
       feasibleSplit([i \in 1 .. Len(prep.routes) |-> finalInputOf(i)])

\* logSpotPrice of the edge buildAdjacencyMap emits for pool i from its
\* token in slot k
logSpotPriceOfSlot(pools, i, k) == poolEdges(pools, i, pools[i].tokens[k])[1].logSpotPrice

\* C24: doubling both reserves of one pool and rebuilding the graph leaves
\* the logSpotPrice of both of that pool's directional edges unchanged, and
\* findTopKRoutesAStar returns the same paths in the same order as before
C24_ReserveScaleInvariant ==
  (pc = "done" /\ cfg.rescaled) =>
    /\ \A k \in 1 .. 2 :
         logSpotPriceOfSlot(cfg.pools, cfg.rescale, k)
           = logSpotPriceOfSlot(cfg.poolsBefore, cfg.rescale, k)
    /\ pathKeysOf(routes) = cfg.pathsBefore

\* the paths that complete a search state: simple extensions over the
\* searched adjacency that reach the target within the hops left, each with
\* its route key and terminal score
RECURSIVE completionsOf(_, _, _, _, _)
completionsOf(nodeId, visited, rem, key, score) ==
  IF rem = 0 THEN {}
  ELSE UNION { LET edge == adjId[nodeId][k]
                   step == <<nodeId, edge.poolId, edge.toId>>
                   g    == score + edge.logSpotPrice - cfg.gasPerHopPenalty
               IN  IF edge.toId \in visited THEN {}
                   ELSE IF edge.toId = tokenToId(cfg.target)
                   THEN {[key |-> Append(key, step), score |-> g]}
                   ELSE completionsOf(edge.toId, visited \cup {edge.toId}, rem - 1,
                                      Append(key, step), g)
               : k \in 1 .. Len(adjId[nodeId]) }

completionsOfState(st) ==
  completionsOf(st.nodeId, st.visitedBits, cfg.maxHops - st.hops, routeKeyOf(st.path), st.score)

\* C25: the prio of every state in the frontier is an upper bound on the
\* terminal score of every path that completes it, and when the search stops
\* early (K candidates held, best frontier prio <= kthScore) no path that
\* completes a frontier state and is not yet recorded scores above kthScore
C25_PrioIsUpperBound ==
  (pc = "post" /\ search.stop = "early") =>
    \A i \in 1 .. Len(search.frontier) :
      \A c \in completionsOfState(search.frontier[i].st) :
        /\ c.score <= search.frontier[i].st.prio
        /\ c.key \notin search.seen => c.score <= search.kthScore

\* C26: after the cap is enforced on a frontier that held more than
\* max(beamWidth * 32, K * 128) states, every state left in the frontier has
\* prio >= the prio of every state removed
C26_CapRemovesWorst ==
  pc = "capped" =>
    /\ Len(search.frontier) = FRONTIER_CAP(cfg)
    /\ \A i \in 1 .. Len(search.frontier) :
         \A j \in 1 .. Len(search.nodePool) :
           search.frontier[i].st.prio >= search.nodePool[j].st.prio

\* reserves of shallow and of deep pool directions, in raw units
ProbeReserves == {1, 2, 3, 10, 19, 20, 21, 999, 1000, 1001, 50000, 1000000, 1000000000, 2000000000}

\* C27: there are pool directions with reserves >= 1 that the graph builder
\* drops because the probe min(0.001 * reserveIn, 1e9) over (reserveIn + probe)
\* exceeds 5%
C27_ProbeDropsShallowPools ==
  \/ \E reserveIn \in ProbeReserves : reserveIn >= 1 /\ probeImpactTooHigh(reserveIn)
  \/ /\ adjId # <<>>
     /\ \E i \in 1 .. Len(cfg.pools) : \E k \in 1 .. Len(cfg.pools[i].tokens) :
          LET token == cfg.pools[i].tokens[k]
              other == getOtherToken(cfg.pools[i], token.addr)
          IN  /\ token.reserve >= 1 /\ other.reserve >= 1
              /\ getSpotPrice(cfg.pools[i], token.addr, other.addr) > 0
              /\ poolEdges(cfg.pools, i, token) = <<>>

\* C28: every call of computeReverseHeuristic returns the shape its own
\* arguments ask for, the address-to-distance Map without tokenToId and the
\* record {dist, heuristicArr} with it, whatever an earlier call with the
\* same cache key stored
C28_ShapeFollowsArguments ==
  heuristicResult # NoHeuristic =>
    heuristicResult.shape = IF cfg.tokenToId THEN "record" ELSE "Map"

\* the position in the caller's list of the route the allocator runs as path i
callerIndexOf(i) ==
  CHOOSE j \in 1 .. Len(request.routes) :
    /\ request.routes[j] = prep.routes[i]
    /\ \A k \in 1 .. j - 1 : request.routes[k] # prep.routes[i]

\* C29: the external capacity applied to a route inside the allocator is the
\* one the caller supplied for that same route (routeCapacities[i] for
\* routes[i]), also when earlier routes of the list are rejected by
\* validateRoute or removed as duplicates
C29_CapacityFollowsRoute ==
  (sp \in {"waterfill", "allocated"} /\ request.enableCapacityConstraints
     /\ request.routeCapacities # <<>>) =>
    \A i \in 1 .. Len(prep.routes) :
      wf.effectiveCapacities[i]
        = Min(request.routeCapacities[callerIndexOf(i)], prep.capacities[i])

\* the paths addNextRoute has handed to the active set so far: the entries
\* of sortedIndices before the pointer
activatedOf(w) == {w.sortedIndices[k] : k \in 1 .. w.pointer}

\* what holds of the allocator's state w for the budget totalInputRaw
waterfillInvariant(w, totalInputRaw, tol) ==
  /\ \A i \in 1 .. Len(w.allocations) :
        /\ 0 <= w.allocations[i]
        /\ w.allocations[i] <= w.effectiveCapacities[i]
  /\ Abs(SeqSum(w.allocations) + w.remaining - totalInputRaw) <= tol
  /\ \A i \in 1 .. Len(w.allocations) :
        (i \notin activatedOf(w)) => (w.allocations[i] = 0)

\* C30: at the end of every iteration of allocateWaterfillPQ each allocation
\* lies between 0 and the capacity of its path, the allocations and the
\* remaining budget add up to the total input within the tolerance, and a
\* path that has not been activated yet holds nothing
C30_WaterfillInvariant ==
  (sp \in {"waterfill", "allocated"} /\ wf.iterations >= 1) =>
    waterfillInvariant(wf, prep.totalInputRaw, prep.effectiveTol)

\* after a pass that moved budget: one path holds part of the budget, another
\* has not been activated, and budget remains
C30_Witness ==
  /\ sp = "waterfill"
  /\ wf.iterations >= 2
  /\ wf.remaining > prep.effectiveTol
  /\ \E i \in 1 .. Len(wf.allocations) : wf.allocations[i] > 0
  /\ \E i \in 1 .. Len(wf.allocations) :
        i \in Range(wf.sortedIndices) /\ i \notin activatedOf(wf)

====
